---- MODULE Spec2Model ----
(***************************************************************************)
(* Arrival Detection Engine of Bus_History: the per-station bus-state      *)
(* tracker of internal/collector (Collector.collectForConfig,              *)
(* Collector.collectData, Collector.getSeatsAfterFromBusLocation,          *)
(* Collector.isWithinTimeWindow).                                          *)
(*                                                                         *)
(* Time is counted in minutes.  now is the value time.Now() returned in    *)
(* the last ticker fire of the worker; the Go zero time.Time is ZeroTime.  *)
(* A *int is modelled as a sequence: <<>> is nil, <<n>> points to n.       *)
(***************************************************************************)
EXTENDS Integers, Sequences, FiniteSets, TLC

VARIABLES
    now,        \* time.Now() at the last ticker fire (minutes)
    ticks,      \* number of ticker fires so far
    interval,   \* Collector.intervalMs, the ticker period, in minutes
    startHour,  \* Collector.startHour
    endHour,    \* Collector.endHour
    hour,       \* the hour read by the last isWithinTimeWindow call
    open,       \* the result of the last isWithinTimeWindow call
    busStates,  \* collectForConfig's busStates map: plate -> BusState
    records,    \* rows of bus_arrivals written by BusRepository.Create
    tick,       \* what the last ticker fire did: none / closed / error / collected
    fetched,    \* whether the last ticker fire called GetRouteArrivalList
    attempts,   \* plate -> number of Create calls made for the entry (kept or just removed)
    arrivals,   \* the snapshot GetRouteArrivalList returned in the last collected tick
    responses,  \* plate -> what GetBusLocations returned to the lookup (kept by SpecLookup only)
    lookups,    \* plate -> result of getSeatsAfterFromBusLocation, for the lookups of the last tick
    creates,    \* plate -> [arrival, ok], for the Create calls of the last tick
    removed,    \* plate -> BusState as it was when the last tick deleted it
    persisted,  \* plate -> number of successful Create calls for the entry (kept or just removed)
    scenario,   \* progress of the run along the end-to-end scenario
    mainCtx,    \* Collector.mainCtx: 0 is nil, k the context made by the k-th Start
    mainCancel, \* Collector.mainCancel: 0 is nil, k the cancel function of context k
    cancelled,  \* the contexts whose cancel function has been called
    dbActive,   \* ConfigRepository.FindActive: config ID -> revision of its route/station fields
    collectors, \* Collector.collectors: config ID -> worker (configCollector)
    workers,    \* every configCollector made so far, with the state of its goroutine
    wg,         \* Collector.wg: the WaitGroup counter
    threads,    \* the caller of the Collector (thread 1) and the goroutines running syncConfigs
    crashed,    \* a goroutine has panicked: the process is gone
    event,      \* what the last step of the supervisor did
    table,      \* bus_arrivals joined with route_configs, as GetTripByArrivalID reads it
    trip        \* the last GetTripByArrivalID call: its argument, the rows fetched, the result

trackVars == <<now, ticks, interval, startHour, endHour, hour, open, busStates, records,
               tick, fetched, attempts, arrivals, responses, lookups, creates, removed,
               persisted, scenario>>

supVars == <<mainCtx, mainCancel, cancelled, dbActive, collectors, workers, wg, threads,
             crashed, event>>

tripVars == <<table, trip>>

vars == <<trackVars, supVars, tripVars>>

----------------------------------------------------------------------------
(* Bounds of the model *)

MaxTicks == 5          \* ticker fires per run
MaxRecords == 2        \* rows the table takes per run
MaxStarts == 2         \* calls of Start per run
MaxWorkers == 2        \* workers started per run
MaxNotifies == 1       \* calls of NotifySync per run

Intervals == {1, 10, 60} \* configured ticker periods, in minutes
Plates == {"A1"}       \* plates of the arrival feed
ArrSeats == {6, 10}    \* seat counts of the arrival feed
LocSeats == {-1, 0, 4} \* seat counts of the location feed (-1: unavailable)
Hours == 0 .. 23
WindowConfigs == {<<22, 2>>}
TickHours == {10, 23}

----------------------------------------------------------------------------
(* Policy constants of collectData *)

ConfirmTimeout == 2     \* 2*time.Minute
Retention == 10         \* 10*time.Minute
Ceiling == 60           \* 1*time.Hour
ZeroTime == 0           \* time.Time{}; PassedAt.IsZero()

----------------------------------------------------------------------------
(* Inputs *)

\* The largest "stops away" ordinal a snapshot of the model reports
MaxOrdinal == 3

Ordinals == 1 .. MaxOrdinal

\* model.BusArrivalInfo: the fields collectData reads
BusArrivalInfo == [PlateNo : Plates, LocationNo1 : Ordinals, RemainSeatCnt : ArrSeats]

\* A vehicle reported without a plate number
NoPlate == [PlateNo |-> "", LocationNo1 |-> 1, RemainSeatCnt |-> 6]

\* What GetRouteArrivalList returns without an error
Snapshots ==
    {<<>>, <<NoPlate>>}
        \cup {<<a>> : a \in BusArrivalInfo}
        \cup {<<NoPlate, a>> : a \in BusArrivalInfo}

\* model.BusLocation: the fields getSeatsAfterFromBusLocation reads
BusLocation == [PlateNo : Plates, RemainSeatCnt : LocSeats]

\* Another vehicle of the route
OtherBus == [PlateNo |-> "B2", RemainSeatCnt |-> 4]

\* Location lists: the tracked bus alone, behind another vehicle, or listed twice
LocationLists ==
    {<<>>, <<OtherBus>>}
        \cup {<<l>> : l \in BusLocation}
        \cup {<<OtherBus, l>> : l \in {m \in BusLocation : m.RemainSeatCnt = 4}}
        \cup {<<l, [l EXCEPT !.RemainSeatCnt = 4]>> :
                  l \in {m \in BusLocation : m.RemainSeatCnt < 0}}

\* What GetBusLocations returns: an error, or a list
LocationResponses ==
    {[err |-> TRUE, locations |-> <<>>]}
        \cup {[err |-> FALSE, locations |-> l] : l \in LocationLists}

Orderings(S) == {o \in [1 .. Cardinality(S) -> S] : \A p \in S : \E i \in DOMAIN o : o[i] = p}

----------------------------------------------------------------------------
(* Collector.isWithinTimeWindow *)

isWithinTimeWindow_AlwaysOpen(sh, eh, h) == TRUE

isWithinTimeWindow_Inclusive(sh, eh, h) ==
    IF sh = 0 /\ eh = 0 THEN TRUE
    ELSE IF sh < eh THEN h >= sh /\ h <= eh
    ELSE IF sh > eh THEN h >= sh \/ h < eh
    ELSE h = sh

isWithinTimeWindow(sh, eh, h) ==
    IF sh = 0 /\ eh = 0 THEN TRUE
    ELSE IF sh < eh THEN h >= sh /\ h < eh
    ELSE IF sh > eh THEN h >= sh \/ h < eh
    ELSE h = sh

----------------------------------------------------------------------------
(* collectData, first loop: the vehicles of the snapshot *)

NewBusState(a, t) ==
    [PlateNo |-> a.PlateNo, FirstSeenAt |-> t, LastSeenAt |-> t,
     SeatsBefore |-> a.RemainSeatCnt, LocationNo |-> a.LocationNo1,
     Recorded |-> FALSE, PendingArrivalID |-> 0, PassedAt |-> ZeroTime,
     RetryCount |-> 0]

GettingCloser_OrSame(a, state) == a.LocationNo1 <= state.LocationNo

GettingCloser_Farther(a, state) == a.LocationNo1 > state.LocationNo

GettingCloser(a, state) == a.LocationNo1 < state.LocationNo

UpdateBusState_ClearsPassed(state, a, t) ==
    [state EXCEPT !.LastSeenAt = t, !.PassedAt = ZeroTime]

UpdateBusState(state, a, t) ==
    IF GettingCloser(a, state)
    THEN [state EXCEPT !.LastSeenAt = t, !.SeatsBefore = a.RemainSeatCnt,
                       !.LocationNo = a.LocationNo1]
    ELSE [state EXCEPT !.LastSeenAt = t]

TrackArrival_KeepsEmpty(states, a, t) ==
    IF a.PlateNo \notin DOMAIN states
    THEN [p \in DOMAIN states \cup {a.PlateNo} |->
             IF p = a.PlateNo THEN NewBusState(a, t) ELSE states[p]]
    ELSE [states EXCEPT ![a.PlateNo] = UpdateBusState(@, a, t)]

TrackArrival(states, a, t) ==
    IF a.PlateNo = "" THEN states
    ELSE IF a.PlateNo \notin DOMAIN states
    THEN [p \in DOMAIN states \cup {a.PlateNo} |->
             IF p = a.PlateNo THEN NewBusState(a, t) ELSE states[p]]
    ELSE [states EXCEPT ![a.PlateNo] = UpdateBusState(@, a, t)]

RECURSIVE ProcessArrivals(_, _, _)
ProcessArrivals(states, arrs, t) ==
    IF arrs = <<>> THEN states
    ELSE ProcessArrivals(TrackArrival(states, Head(arrs), t), Tail(arrs), t)

CurrentBuses(arrs) ==
    {arrs[i].PlateNo : i \in {j \in DOMAIN arrs : arrs[j].PlateNo # ""}}

----------------------------------------------------------------------------
(* Collector.getSeatsAfterFromBusLocation *)

RECURSIVE ScanLocations_ZeroIsSentinel(_, _)
ScanLocations_ZeroIsSentinel(locs, plateNo) ==
    IF locs = <<>> THEN <<>>
    ELSE IF Head(locs).PlateNo = plateNo
    THEN IF Head(locs).RemainSeatCnt <= 0 THEN <<>> ELSE <<Head(locs).RemainSeatCnt>>
    ELSE ScanLocations_ZeroIsSentinel(Tail(locs), plateNo)

RECURSIVE ScanLocations(_, _)
ScanLocations(locs, plateNo) ==
    IF locs = <<>> THEN <<>>
    ELSE IF Head(locs).PlateNo = plateNo
    THEN IF Head(locs).RemainSeatCnt < 0 THEN <<>> ELSE <<Head(locs).RemainSeatCnt>>
    ELSE ScanLocations(Tail(locs), plateNo)

getSeatsAfterFromBusLocation_ErrIsZero(res, plateNo) ==
    IF res.err THEN <<0>> ELSE ScanLocations(res.locations, plateNo)

getSeatsAfterFromBusLocation(res, plateNo) ==
    IF res.err THEN <<>> ELSE ScanLocations(res.locations, plateNo)

----------------------------------------------------------------------------
(* collectData, second loop: a tracked plate that is not in the snapshot *)

MarkPassed_Always(state, t) == [state EXCEPT !.PassedAt = t]

MarkPassed(state, t) ==
    IF state.PassedAt = ZeroTime THEN [state EXCEPT !.PassedAt = t] ELSE state

TimedOut_SinceLastSeen(state, t) == ~(t - state.LastSeenAt < ConfirmTimeout)

TimedOut_Late(state, t) == ~(t - state.PassedAt <= ConfirmTimeout)

TimedOut_Always(state, t) == TRUE

TimedOut(state, t) == ~(t - state.PassedAt < ConfirmTimeout)

NeedsRecord_Always(state) == TRUE

NeedsRecord(state) == ~state.Recorded

ArrivalToCreate_AtNow(state, t, res) ==
    IF ~NeedsRecord(state) THEN <<>>
    ELSE LET st == MarkPassed(state, t)
             seatsAfter == getSeatsAfterFromBusLocation(res, state.PlateNo)
         IN  IF seatsAfter # <<>> \/ TimedOut(st, t)
             THEN <<[BusNumber |-> state.PlateNo, ArrivalTime |-> t,
                     SeatsBefore |-> <<st.SeatsBefore>>, SeatsAfter |-> seatsAfter]>>
             ELSE <<>>

\* The BusArrival handed to busRepo.Create in this visit, <<>> if none.
ArrivalToCreate(state, t, res) ==
    IF ~NeedsRecord(state) THEN <<>>
    ELSE LET st == MarkPassed(state, t)
             seatsAfter == getSeatsAfterFromBusLocation(res, state.PlateNo)
         IN  IF seatsAfter # <<>>
             THEN <<[BusNumber |-> state.PlateNo, ArrivalTime |-> st.LastSeenAt,
                     SeatsBefore |-> <<st.SeatsBefore>>, SeatsAfter |-> seatsAfter]>>
             ELSE IF TimedOut(st, t)
             THEN <<[BusNumber |-> state.PlateNo, ArrivalTime |-> st.LastSeenAt,
                     SeatsBefore |-> <<st.SeatsBefore>>, SeatsAfter |-> <<>>]>>
             ELSE <<>>

AfterCreate_Forgets(state, ok) == state

AfterCreate_RecordsFailure(state, ok) == [state EXCEPT !.Recorded = TRUE]

AfterCreate(state, ok) == IF ok THEN [state EXCEPT !.Recorded = TRUE] ELSE state

\* The entry after the visit; ok is whether busRepo.Create returns nil.
PassedBus(state, t, res, ok) ==
    IF ~NeedsRecord(state) THEN state
    ELSE LET st == MarkPassed(state, t)
             seatsAfter == getSeatsAfterFromBusLocation(res, state.PlateNo)
         IN  IF seatsAfter # <<>>
             THEN AfterCreate(st, ok)
             ELSE LET retry == [st EXCEPT !.RetryCount = @ + 1]
                  IN  IF TimedOut(retry, t) THEN AfterCreate(retry, ok) ELSE retry

\* "Remove bus from tracking after 10 minutes", inside the second loop
StaleAbsent_AtLeast(state, t) == t - state.LastSeenAt >= Retention

StaleAbsent(state, t) == t - state.LastSeenAt > Retention

\* "Clean up very old entries", the third loop
TooOld_LastSeen(state, t) == t - state.LastSeenAt > Ceiling

TooOld(state, t) == t - state.FirstSeenAt > Ceiling

Restrict(f, S) == [p \in S |-> f[p]]

Empty == [p \in {} |-> 0]

----------------------------------------------------------------------------
(* One run of collectData at time t on snapshot snap;                      *)
(* res[p] is what GetBusLocations returns to the lookup for plate p and    *)
(* ok[p] whether busRepo.Create succeeds for plate p.                      *)

Absent_All(states, snap) == DOMAIN states

Absent(states, snap) == DOMAIN states \ CurrentBuses(snap)

LookedUp(states, snap) == {p \in Absent(states, snap) : NeedsRecord(states[p])}

Creators(states, t, res) ==
    {p \in DOMAIN res : ArrivalToCreate(states[p], t, res[p]) # <<>>}

Visited(states, t, res, ok) ==
    [p \in DOMAIN states |->
        IF p \in DOMAIN res
        THEN PassedBus(states[p], t, res[p], IF p \in DOMAIN ok THEN ok[p] ELSE FALSE)
        ELSE states[p]]

RemovedStale_PendingOnly(states, snap, t) ==
    {p \in Absent(states, snap) : ~states[p].Recorded /\ StaleAbsent(states[p], t)}

RemovedStale(states, snap, t) == {p \in Absent(states, snap) : StaleAbsent(states[p], t)}

RemovedOld(states, t) == {p \in DOMAIN states : TooOld(states[p], t)}

Saved(ok) == {p \in DOMAIN ok : ok[p]}

CreatedRows(states, t, res, ord) ==
    [i \in DOMAIN ord |-> ArrivalToCreate(states[ord[i]], t, res[ord[i]])[1]]

collectData(snap, t, res, ok, ord) ==
    LET tracked == ProcessArrivals(busStates, snap, t)
        visited == Visited(tracked, t, res, ok)
        stale == RemovedStale(visited, snap, t)
        fresh == Restrict(visited, DOMAIN visited \ stale)
        old == RemovedOld(fresh, t)
        kept == DOMAIN fresh \ old
    IN  /\ busStates' = Restrict(fresh, kept)
        /\ records' = records \o CreatedRows(tracked, t, res, ord)
        /\ creates' = [p \in DOMAIN ok |->
                         [arrival |-> ArrivalToCreate(tracked[p], t, res[p])[1],
                          ok |-> ok[p]]]
        /\ removed' = Restrict(visited, stale \cup old)
        /\ persisted' = [p \in DOMAIN visited |->
                           (IF p \in DOMAIN busStates THEN persisted[p] ELSE 0)
                             + (IF p \in Saved(ok) THEN 1 ELSE 0)]
        /\ attempts' = [p \in DOMAIN visited |->
                           (IF p \in DOMAIN busStates THEN attempts[p] ELSE 0)
                             + (IF p \in DOMAIN ok THEN 1 ELSE 0)]
        /\ arrivals' = snap
        /\ lookups' = [p \in DOMAIN res |-> getSeatsAfterFromBusLocation(res[p], p)]

----------------------------------------------------------------------------
(* The end-to-end scenario of the specification, followed from the first   *)
(* tick on: A1 at {ordinal 3, seats 10}, A1 at {ordinal 1, seats 6}, then  *)
(* A1 absent; the location feed answers the sentinel twice, then seats 4;  *)
(* every tick is collected and every Create succeeds.                      *)

Sighting(ordinal, seats) ==
    <<[PlateNo |-> "A1", LocationNo1 |-> ordinal, RemainSeatCnt |-> seats]>>

Answer(seats) ==
    [err |-> FALSE, locations |-> <<[PlateNo |-> "A1", RemainSeatCnt |-> seats]>>]

Answered(res, seats) == "A1" \in DOMAIN res => res["A1"] = Answer(seats)

AllSaved(ok) == \A p \in DOMAIN ok : ok[p]

ScenarioStep(sc, snap, res, ok) ==
    IF sc = "start" /\ snap = Sighting(3, 10) THEN "one"
    ELSE IF sc = "one" /\ snap = Sighting(1, 6) THEN "two"
    ELSE IF sc = "two" /\ snap = <<>> /\ Answered(res, -1) /\ AllSaved(ok) THEN "three"
    ELSE IF sc = "three" /\ snap = <<>> /\ Answered(res, -1) /\ AllSaved(ok) THEN "four"
    ELSE IF sc = "four" /\ snap = <<>> /\ Answered(res, 4) /\ AllSaved(ok) THEN "done"
    ELSE IF sc = "done" /\ snap = <<>> /\ AllSaved(ok) THEN "done"
    ELSE "off"

ScenarioIdle(sc) == IF sc = "done" THEN "done" ELSE "off"

----------------------------------------------------------------------------
(* The supervisor: Collector.Start, Stop, NotifySync and syncConfigs, the   *)
(* reconciliation goroutine of Start and the worker goroutines.             *)
(*                                                                         *)
(* c.mu makes the locked part of syncConfigs and the locked part of Stop   *)
(* atomic with respect to each other; each is one step.  c.mainCtx is read *)
(* by the goroutines without the lock, at every entry of their select.     *)

ConfigIDs == {1, 2}

\* What FindActive can return: the active configs, config 1 in one of two
\* revisions of its route/station/name fields.
ActiveSets ==
    {f \in UNION {[S -> {0, 1}] : S \in SUBSET ConfigIDs} :
        \A id \in DOMAIN f : id # 1 => f[id] = 0}

AppThread == 1

Thread(kind, pc) == [kind |-> kind, pc |-> pc, ctx |-> 0, configs |-> Empty]

Event(op) == [op |-> op, configs |-> Empty, started |-> {}, stopped |-> {}]

\* configCollector and its goroutine, which owns the busStates map of the config
\* running counts the collectData executions active on the goroutine's busStates,
\* closes the close(stopChan) calls made on its channel
Worker(id, rev) ==
    [cfg |-> id, rev |-> rev, stopClosed |-> FALSE, pc |-> "enter", ctx |-> 0,
     running |-> 0, closes |-> 0]

Live(w) == workers[w].pc # "gone"

\* Collector.IsRunning
IsRunning == mainCancel # 0

\* Start, line 82: a fresh context and its cancel function
StartBegin ==
    /\ ~crashed
    /\ UNCHANGED <<trackVars, tripVars>>
    /\ threads[AppThread].pc = "idle"
    /\ Len(cancelled) < MaxStarts
    /\ cancelled' = Append(cancelled, FALSE)
    /\ mainCtx' = Len(cancelled) + 1
    /\ mainCancel' = Len(cancelled) + 1
    /\ threads' = [threads EXCEPT ![AppThread].pc = "fetch"]
    /\ event' = Event("step")
    /\ UNCHANGED <<dbActive, collectors, workers, wg, crashed>>

AfterSync_Once(kind) == IF kind = "app" THEN "spawn" ELSE "gone"

\* where a thread goes when its syncConfigs call returns
AfterSync(kind) ==
    IF kind = "app" THEN "spawn" ELSE IF kind = "loop" THEN "enter" ELSE "gone"

\* syncConfigs, line 132: FindActive answers
FindActive(t) ==
    /\ ~crashed
    /\ UNCHANGED <<trackVars, tripVars>>
    /\ threads[t].pc = "fetch"
    /\ threads' = [threads EXCEPT ![t].pc = "apply", ![t].configs = dbActive]
    /\ event' = Event("step")
    /\ UNCHANGED <<mainCtx, mainCancel, cancelled, dbActive, collectors, workers, wg,
                   crashed>>

OnFetchError_StopsAll(colls) == Empty

\* syncConfigs returns on the error before it takes c.mu
OnFetchError(colls) == colls

\* syncConfigs, lines 133-136: FindActive fails
FindActiveFails(t) ==
    /\ ~crashed
    /\ UNCHANGED <<trackVars, tripVars>>
    /\ threads[t].pc = "fetch"
    /\ threads' = [threads EXCEPT ![t].pc = AfterSync(threads[t].kind)]
    /\ collectors' = OnFetchError(collectors)
    /\ event' = Event("fetch_failed")
    /\ UNCHANGED <<mainCtx, mainCancel, cancelled, dbActive, workers, wg, crashed>>

ToStop_None(colls, configs) == {}

\* "Stop collectors for deleted/inactive configs"
ToStop(colls, configs) == DOMAIN colls \ DOMAIN configs

ToStart_All(colls, configs) == DOMAIN configs

ToStart_OnEdit(colls, configs) ==
    {id \in DOMAIN configs :
        id \notin DOMAIN colls \/ workers[colls[id]].rev # configs[id]}

\* "Start collectors for new configs"
ToStart(colls, configs) == {id \in DOMAIN configs : id \notin DOMAIN colls}

\* The new IDs in the order of the configs slice (ascending ID)
RECURSIVE Ascending(_)
Ascending(S) ==
    IF S = {} THEN <<>>
    ELSE LET m == CHOOSE x \in S : \A y \in S : x <= y
         IN  <<m>> \o Ascending(S \ {m})

\* close(cc.stopChan) for every collector of ids
CloseStopChans(ws, ids) ==
    [w \in DOMAIN ws |->
        IF w \in ids THEN [ws[w] EXCEPT !.stopClosed = TRUE, !.closes = @ + 1] ELSE ws[w]]

Kept_All(colls, stop) == DOMAIN colls

\* delete(c.collectors, id) for every stopped id
Kept(colls, stop) == DOMAIN colls \ stop

\* syncConfigs, lines 138-173, under c.mu
Reconcile(t) ==
    LET configs == threads[t].configs
        stop == ToStop(collectors, configs)
        start == Ascending(ToStart(collectors, configs))
        stopped == {collectors[id] : id \in stop}
        fresh == [i \in DOMAIN start |-> Worker(start[i], configs[start[i]])]
        slot(id) == CHOOSE i \in DOMAIN start : start[i] = id
    IN  /\ ~crashed
        /\ UNCHANGED <<trackVars, tripVars>>
        /\ threads[t].pc = "apply"
        /\ Len(workers) + Len(start) <= MaxWorkers
        /\ workers' = CloseStopChans(workers, stopped) \o fresh
        /\ collectors' = [id \in Kept(collectors, stop) \cup ToStart(collectors, configs) |->
                             IF id \in ToStart(collectors, configs)
                             THEN Len(workers) + slot(id)
                             ELSE collectors[id]]
        /\ wg' = wg + Len(start)
        /\ threads' = [threads EXCEPT ![t].pc = AfterSync(threads[t].kind),
                                      ![t].configs = Empty]
        /\ event' = [op |-> "reconciled", configs |-> configs,
                     started |-> {Len(workers) + i : i \in DOMAIN start},
                     stopped |-> stopped]
        /\ UNCHANGED <<mainCtx, mainCancel, cancelled, dbActive, crashed>>

\* Start, lines 88-101: the reconciliation goroutine is started, Start returns
StartSpawn ==
    /\ ~crashed
    /\ UNCHANGED <<trackVars, tripVars>>
    /\ threads[AppThread].pc = "spawn"
    /\ threads' = Append([threads EXCEPT ![AppThread].pc = "idle"], Thread("loop", "enter"))
    /\ event' = Event("step")
    /\ UNCHANGED <<mainCtx, mainCancel, cancelled, dbActive, collectors, workers, wg,
                   crashed>>

\* The reconciliation goroutine evaluates c.mainCtx.Done() and blocks in its select
LoopEnter(t) ==
    /\ ~crashed
    /\ UNCHANGED <<trackVars, tripVars>>
    /\ threads[t].kind = "loop"
    /\ threads[t].pc = "enter"
    /\ IF mainCtx = 0
       THEN /\ crashed' = TRUE
            /\ event' = Event("panic")
            /\ UNCHANGED threads
       ELSE /\ threads' = [threads EXCEPT ![t].pc = "select", ![t].ctx = mainCtx]
            /\ event' = Event("step")
            /\ UNCHANGED crashed
    /\ UNCHANGED <<mainCtx, mainCancel, cancelled, dbActive, collectors, workers, wg>>

\* case <-c.mainCtx.Done()
LoopDone(t) ==
    /\ ~crashed
    /\ UNCHANGED <<trackVars, tripVars>>
    /\ threads[t].kind = "loop"
    /\ threads[t].pc = "select"
    /\ cancelled[threads[t].ctx]
    /\ threads' = [threads EXCEPT ![t].pc = "gone", ![t].ctx = 0]
    /\ event' = Event("step")
    /\ UNCHANGED <<mainCtx, mainCancel, cancelled, dbActive, collectors, workers, wg,
                   crashed>>

\* case <-ticker.C: syncConfigs is called
LoopTick(t) ==
    /\ ~crashed
    /\ UNCHANGED <<trackVars, tripVars>>
    /\ threads[t].kind = "loop"
    /\ threads[t].pc = "select"
    /\ threads' = [threads EXCEPT ![t].pc = "fetch", ![t].ctx = 0]
    /\ event' = Event("step")
    /\ UNCHANGED <<mainCtx, mainCancel, cancelled, dbActive, collectors, workers, wg,
                   crashed>>

\* CreateConfig: Start unless IsRunning, then NotifySync: go c.syncConfigs()
NotifySync ==
    /\ ~crashed
    /\ UNCHANGED <<trackVars, tripVars>>
    /\ threads[AppThread].pc = "idle"
    /\ mainCancel # 0
    /\ Cardinality({t \in DOMAIN threads : threads[t].kind = "notify"}) < MaxNotifies
    /\ threads' = Append(threads, Thread("notify", "fetch"))
    /\ event' = Event("step")
    /\ UNCHANGED <<mainCtx, mainCancel, cancelled, dbActive, collectors, workers, wg,
                   crashed>>

\* collectForConfig evaluates c.mainCtx.Done() and blocks in its select
WorkerEnter(w) ==
    /\ ~crashed
    /\ UNCHANGED <<trackVars, tripVars>>
    /\ workers[w].pc = "enter"
    /\ IF mainCtx = 0
       THEN /\ crashed' = TRUE
            /\ event' = Event("panic")
            /\ UNCHANGED workers
       ELSE /\ workers' = [workers EXCEPT ![w].pc = "select", ![w].ctx = mainCtx]
            /\ event' = Event("step")
            /\ UNCHANGED crashed
    /\ UNCHANGED <<mainCtx, mainCancel, cancelled, dbActive, collectors, wg, threads>>

\* case <-c.mainCtx.Done() or case <-cc.stopChan: return, wg.Done()
WorkerReturn(w) ==
    /\ ~crashed
    /\ UNCHANGED <<trackVars, tripVars>>
    /\ workers[w].pc = "select"
    /\ cancelled[workers[w].ctx] \/ workers[w].stopClosed
    /\ workers' = [workers EXCEPT ![w].pc = "gone", ![w].ctx = 0]
    /\ wg' = wg - 1
    /\ event' = Event("step")
    /\ UNCHANGED <<mainCtx, mainCancel, cancelled, dbActive, collectors, threads, crashed>>

\* case <-ticker.C: one poll on the worker's own busStates
WorkerTick(w) ==
    /\ ~crashed
    /\ UNCHANGED <<trackVars, tripVars>>
    /\ workers[w].pc = "select"
    /\ workers' = [workers EXCEPT ![w].pc = "enter", ![w].ctx = 0]
    /\ event' = Event("step")
    /\ UNCHANGED <<mainCtx, mainCancel, cancelled, dbActive, collectors, wg, threads,
                   crashed>>

\* Stop, lines 106-110: return when not started, else cancel the context
StopBegin ==
    /\ ~crashed
    /\ UNCHANGED <<trackVars, tripVars>>
    /\ threads[AppThread].pc = "idle"
    /\ IF mainCancel = 0
       THEN /\ event' = Event("step")
            /\ UNCHANGED <<cancelled, threads>>
       ELSE /\ cancelled' = [cancelled EXCEPT ![mainCancel] = TRUE]
            /\ threads' = [threads EXCEPT ![AppThread].pc = "stop_lock"]
            /\ event' = Event("step")
    /\ UNCHANGED <<mainCtx, mainCancel, dbActive, collectors, workers, wg, crashed>>

\* Stop, lines 112-117, under c.mu
StopLocked ==
    /\ ~crashed
    /\ UNCHANGED <<trackVars, tripVars>>
    /\ threads[AppThread].pc = "stop_lock"
    /\ workers' = CloseStopChans(workers, {collectors[id] : id \in DOMAIN collectors})
    /\ collectors' = Empty
    /\ threads' = [threads EXCEPT ![AppThread].pc = "stop_wait"]
    /\ event' = Event("step")
    /\ UNCHANGED <<mainCtx, mainCancel, cancelled, dbActive, wg, crashed>>

\* Stop, line 119: c.wg.Wait() returns
StopWaited ==
    /\ ~crashed
    /\ UNCHANGED <<trackVars, tripVars>>
    /\ threads[AppThread].pc = "stop_wait"
    /\ wg = 0
    /\ threads' = [threads EXCEPT ![AppThread].pc = "stop_clear"]
    /\ event' = Event("step")
    /\ UNCHANGED <<mainCtx, mainCancel, cancelled, dbActive, collectors, workers, wg,
                   crashed>>

\* Stop, lines 120-123: the fields are cleared, Stop returns
StopReturn ==
    /\ ~crashed
    /\ UNCHANGED <<trackVars, tripVars>>
    /\ threads[AppThread].pc = "stop_clear"
    /\ mainCancel' = 0
    /\ mainCtx' = 0
    /\ threads' = [threads EXCEPT ![AppThread].pc = "idle"]
    /\ event' = Event("stopped")
    /\ UNCHANGED <<cancelled, dbActive, collectors, workers, wg, crashed>>

\* CreateConfig, DeleteConfig, ToggleConfig or an edit: the table becomes one of sets
DbWrite(sets) ==
    /\ ~crashed
    /\ UNCHANGED <<trackVars, tripVars>>
    /\ threads[AppThread].pc = "idle"
    /\ \E f \in sets \ {dbActive} : dbActive' = f
    /\ event' = Event("step")
    /\ UNCHANGED <<mainCtx, mainCancel, cancelled, collectors, workers, wg, threads,
                   crashed>>

\* Any change of the configuration table
DbChange == DbWrite(ActiveSets)

\* Config 1 is activated or deactivated
DbToggle == DbWrite({f \in ActiveSets : DOMAIN f \subseteq {1} /\ \A id \in DOMAIN f : f[id] = 0})

\* CreateConfig, lines 243-246 of app.go: Start unless IsRunning
StartIfStopped == mainCancel = 0 /\ StartBegin

\* No GetTripByArrivalID call has been made
NoTrip == [id |-> 0, found |-> FALSE, all |-> <<>>, rows |-> <<>>]

\* An empty bus_arrivals table that is not looked at
TripIdle ==
    /\ table = <<>>
    /\ trip = NoTrip

\* NewCollector
SupIdle ==
    /\ mainCtx = 0
    /\ mainCancel = 0
    /\ cancelled = <<>>
    /\ dbActive = Empty
    /\ collectors = Empty
    /\ workers = <<>>
    /\ wg = 0
    /\ threads = <<Thread("app", "idle")>>
    /\ crashed = FALSE
    /\ event = Event("new")

\* A worker that is not looked at
TrackIdle ==
    /\ now = 0
    /\ ticks = 0
    /\ interval = 1
    /\ startHour = 0
    /\ endHour = 0
    /\ hour = 0
    /\ open = TRUE
    /\ busStates = Empty
    /\ records = <<>>
    /\ tick = "none"
    /\ fetched = FALSE
    /\ attempts = Empty
    /\ arrivals = <<>>
    /\ responses = Empty
    /\ lookups = Empty
    /\ creates = Empty
    /\ removed = Empty
    /\ persisted = Empty
    /\ scenario = "off"

\* A supervisor that is started once and never stopped, on any configuration table
InitSync ==
    /\ TrackIdle
    /\ SupIdle
    /\ TripIdle

NextSync ==
    \/ StartIfStopped
    \/ StartSpawn
    \/ \E t \in DOMAIN threads : FindActive(t)
    \/ \E t \in DOMAIN threads : FindActiveFails(t)
    \/ \E t \in DOMAIN threads : Reconcile(t)
    \/ \E t \in DOMAIN threads : LoopEnter(t)
    \/ \E t \in DOMAIN threads : LoopTick(t)
    \/ \E w \in DOMAIN workers : WorkerEnter(w)
    \/ \E w \in DOMAIN workers : WorkerReturn(w)
    \/ \E w \in DOMAIN workers : WorkerTick(w)
    \/ DbChange

SpecSync == InitSync /\ [][NextSync]_vars

\* ToggleConfig on config 1, activation capped by the workers the run may start
DbToggleCapped == (dbActive # Empty \/ Len(workers) < MaxWorkers) /\ DbToggle

\* A supervisor that is started once, whose config fetches all succeed, under
\* a fair scheduler: a goroutine that can take its next step takes it, and
\* the 30-second ticker of the reconciliation loop keeps firing.
NextConverge ==
    \/ StartIfStopped
    \/ StartSpawn
    \/ \E t \in DOMAIN threads : FindActive(t)
    \/ \E t \in DOMAIN threads : Reconcile(t)
    \/ \E t \in DOMAIN threads : LoopEnter(t)
    \/ \E t \in DOMAIN threads : LoopTick(t)
    \/ \E w \in DOMAIN workers : WorkerEnter(w)
    \/ \E w \in DOMAIN workers : WorkerReturn(w)
    \/ \E w \in DOMAIN workers : WorkerTick(w)
    \/ DbToggleCapped

FairSync ==
    /\ WF_vars(StartSpawn)
    /\ WF_vars(\E t \in DOMAIN threads : FindActive(t))
    /\ WF_vars(\E t \in DOMAIN threads : Reconcile(t))
    /\ WF_vars(\E t \in DOMAIN threads : LoopEnter(t))
    /\ WF_vars(\E t \in DOMAIN threads : LoopTick(t))

SpecConverge == InitSync /\ [][NextConverge]_vars /\ FairSync

\* Start, Stop and NotifySync in any order, config 1 switched on and off
InitSup ==
    /\ TrackIdle
    /\ SupIdle
    /\ TripIdle

NextSup ==
    \/ StartBegin
    \/ StartSpawn
    \/ \E t \in DOMAIN threads : FindActive(t)
    \/ \E t \in DOMAIN threads : FindActiveFails(t)
    \/ \E t \in DOMAIN threads : Reconcile(t)
    \/ \E t \in DOMAIN threads : LoopEnter(t)
    \/ \E t \in DOMAIN threads : LoopDone(t)
    \/ \E t \in DOMAIN threads : LoopTick(t)
    \/ NotifySync
    \/ \E w \in DOMAIN workers : WorkerEnter(w)
    \/ \E w \in DOMAIN workers : WorkerReturn(w)
    \/ \E w \in DOMAIN workers : WorkerTick(w)
    \/ StopBegin
    \/ StopLocked
    \/ StopWaited
    \/ StopReturn
    \/ DbToggle

SpecSup == InitSup /\ [][NextSup]_vars

----------------------------------------------------------------------------
(* The same goroutines in smaller steps: taking c.mu is a step of its own,  *)
(* and a ticker case of collectForConfig is two, the choice of the case in *)
(* the select and the return of the handler.  The supervisor is started    *)
(* once, for config 1.                                                     *)

\* The goroutines that hold c.mu
Holders == {t \in DOMAIN threads : threads[t].pc \in {"locked", "stop_locked"}}

MutexFree_Always == TRUE

\* sync.Mutex: Lock returns when no goroutine holds the mutex
MutexFree == Holders = {}

\* syncConfigs, line 138: c.mu.Lock()
SyncLock(t) ==
    /\ ~crashed
    /\ UNCHANGED <<trackVars, tripVars>>
    /\ threads[t].pc = "apply"
    /\ MutexFree
    /\ threads' = [threads EXCEPT ![t].pc = "locked"]
    /\ event' = Event("step")
    /\ UNCHANGED <<mainCtx, mainCancel, cancelled, dbActive, collectors, workers, wg,
                   crashed>>

\* syncConfigs, lines 141-173 and the deferred c.mu.Unlock()
SyncLocked(t) ==
    LET configs == threads[t].configs
        stop == ToStop(collectors, configs)
        start == Ascending(ToStart(collectors, configs))
        stopped == {collectors[id] : id \in stop}
        fresh == [i \in DOMAIN start |-> Worker(start[i], configs[start[i]])]
        slot(id) == CHOOSE i \in DOMAIN start : start[i] = id
    IN  /\ ~crashed
        /\ UNCHANGED <<trackVars, tripVars>>
        /\ threads[t].pc = "locked"
        /\ Len(workers) + Len(start) <= MaxWorkers
        /\ workers' = CloseStopChans(workers, stopped) \o fresh
        /\ collectors' = [id \in Kept(collectors, stop) \cup ToStart(collectors, configs) |->
                             IF id \in ToStart(collectors, configs)
                             THEN Len(workers) + slot(id)
                             ELSE collectors[id]]
        /\ wg' = wg + Len(start)
        /\ threads' = [threads EXCEPT ![t].pc = AfterSync(threads[t].kind),
                                      ![t].configs = Empty]
        /\ event' = [op |-> "reconciled", configs |-> configs,
                     started |-> {Len(workers) + i : i \in DOMAIN start},
                     stopped |-> stopped]
        /\ UNCHANGED <<mainCtx, mainCancel, cancelled, dbActive, crashed>>

\* Stop, line 112: c.mu.Lock()
StopLock ==
    /\ ~crashed
    /\ UNCHANGED <<trackVars, tripVars>>
    /\ threads[AppThread].pc = "stop_lock"
    /\ MutexFree
    /\ threads' = [threads EXCEPT ![AppThread].pc = "stop_locked"]
    /\ event' = Event("step")
    /\ UNCHANGED <<mainCtx, mainCancel, cancelled, dbActive, collectors, workers, wg,
                   crashed>>

\* Stop, lines 113-117: every stopChan closed, the map emptied, c.mu.Unlock()
StopUnlock ==
    /\ ~crashed
    /\ UNCHANGED <<trackVars, tripVars>>
    /\ threads[AppThread].pc = "stop_locked"
    /\ workers' = CloseStopChans(workers, {collectors[id] : id \in DOMAIN collectors})
    /\ collectors' = Empty
    /\ threads' = [threads EXCEPT ![AppThread].pc = "stop_wait"]
    /\ event' = Event("emptied")
    /\ UNCHANGED <<mainCtx, mainCancel, cancelled, dbActive, wg, crashed>>

\* What one ticker case of collectForConfig can meet
TickOutcomes == {"closed", "snapshot_error", "lookup_error", "persist_error", "ok"}

PollNext_Async == "enter"

\* collectData is called, not started as a goroutine: the loop is inside it
PollNext == "collect"

\* case <-ticker.C is chosen by the select, whatever else is ready
WorkerPoll(w) ==
    /\ ~crashed
    /\ UNCHANGED <<trackVars, tripVars>>
    /\ workers[w].pc = "select"
    /\ workers' = [workers EXCEPT ![w].pc = PollNext, ![w].ctx = 0,
                                  ![w].running = @ + 1]
    /\ event' = Event("poll")
    /\ UNCHANGED <<mainCtx, mainCancel, cancelled, dbActive, collectors, wg, threads,
                   crashed>>

AfterTick_ErrorExits(outcome) ==
    IF outcome \in {"closed", "ok"} THEN "enter" ELSE "gone"

\* Every path through lines 199-205 and collectData returns to the for loop
AfterTick(outcome) == "enter"

\* The handler of the ticker case returns
WorkerCollected(w) ==
    \E outcome \in TickOutcomes :
        /\ ~crashed
        /\ UNCHANGED <<trackVars, tripVars>>
        /\ workers[w].pc = "collect"
        /\ workers' = [workers EXCEPT ![w].pc = AfterTick(outcome),
                                      ![w].running = @ - 1]
        /\ event' = Event(outcome)
        /\ UNCHANGED <<mainCtx, mainCancel, cancelled, dbActive, collectors, wg, threads,
                       crashed>>

\* StartCollection, once
StartOnce == cancelled = <<>> /\ StartBegin

\* The context handed to Start is cancelled: so is every context made from it
ParentCancel ==
    /\ ~crashed
    /\ UNCHANGED <<trackVars, tripVars>>
    /\ \E k \in DOMAIN cancelled : ~cancelled[k]
    /\ cancelled' = [k \in DOMAIN cancelled |-> TRUE]
    /\ event' = Event("parent_cancelled")
    /\ UNCHANGED <<mainCtx, mainCancel, dbActive, collectors, workers, wg, threads,
                   crashed>>

InitLife ==
    /\ TrackIdle
    /\ SupIdle
    /\ TripIdle

NextLife ==
    \/ StartOnce
    \/ StartSpawn
    \/ \E t \in DOMAIN threads : FindActive(t)
    \/ \E t \in DOMAIN threads : FindActiveFails(t)
    \/ \E t \in DOMAIN threads : SyncLock(t)
    \/ \E t \in DOMAIN threads : SyncLocked(t)
    \/ \E t \in DOMAIN threads : LoopEnter(t)
    \/ \E t \in DOMAIN threads : LoopDone(t)
    \/ \E t \in DOMAIN threads : LoopTick(t)
    \/ \E w \in DOMAIN workers : WorkerEnter(w)
    \/ \E w \in DOMAIN workers : WorkerReturn(w)
    \/ \E w \in DOMAIN workers : WorkerPoll(w)
    \/ \E w \in DOMAIN workers : WorkerCollected(w)
    \/ StopBegin
    \/ StopLock
    \/ StopUnlock
    \/ StopWaited
    \/ StopReturn
    \/ ParentCancel
    \/ DbToggle

SpecLife == InitLife /\ [][NextLife]_vars

\* Stop and a later CreateConfig, which starts the supervisor again and calls
\* NotifySync, with the periodic reconciliation running; config 1 is switched
\* on and off.
\* StartCollection or CreateConfig on a stopped supervisor none of whose earlier
\* goroutines is left
StartQuiet ==
    /\ \A t \in DOMAIN threads \ {AppThread} : threads[t].pc = "gone"
    /\ StartIfStopped

InitStops ==
    /\ TrackIdle
    /\ SupIdle
    /\ TripIdle

NextStops ==
    \/ StartQuiet
    \/ StartSpawn
    \/ \E t \in DOMAIN threads : FindActive(t)
    \/ \E t \in DOMAIN threads : Reconcile(t)
    \/ \E t \in DOMAIN threads : LoopEnter(t)
    \/ \E t \in DOMAIN threads : LoopDone(t)
    \/ \E t \in DOMAIN threads : LoopTick(t)
    \/ NotifySync
    \/ \E w \in DOMAIN workers : WorkerEnter(w)
    \/ \E w \in DOMAIN workers : WorkerReturn(w)
    \/ StopBegin
    \/ StopLocked
    \/ StopWaited
    \/ StopReturn
    \/ DbToggle

SpecStops == InitStops /\ [][NextStops]_vars

----------------------------------------------------------------------------
(* App.initializeServices on an initialized application, as UpdateSettings   *)
(* runs it: a.collector.Stop(), a.db.Close(), then a new database handle    *)
(* and a new Collector.  Stop is called by initializeServices only.         *)

\* Stop, lines 120-123, called at line 70 of app.go: the fields are cleared,
\* Stop returns to initializeServices
ReinitStopReturn ==
    /\ ~crashed
    /\ UNCHANGED <<trackVars, tripVars>>
    /\ threads[AppThread].pc = "stop_clear"
    /\ mainCancel' = 0
    /\ mainCtx' = 0
    /\ threads' = [threads EXCEPT ![AppThread].pc = "close"]
    /\ event' = Event("stopped")
    /\ UNCHANGED <<cancelled, dbActive, collectors, workers, wg, crashed>>

\* initializeServices, lines 72-74 of app.go: the database handle of the
\* collector is closed; the application goes on with a new Collector, the
\* goroutines of this one are on their own
ReinitClose ==
    /\ ~crashed
    /\ UNCHANGED <<trackVars, tripVars>>
    /\ threads[AppThread].pc = "close"
    /\ threads' = [threads EXCEPT ![AppThread].pc = "reinit"]
    /\ event' = Event("db_closed")
    /\ UNCHANGED <<mainCtx, mainCancel, cancelled, dbActive, collectors, workers, wg,
                   crashed>>

InitReinit ==
    /\ TrackIdle
    /\ SupIdle
    /\ TripIdle

NextReinit ==
    \/ StartOnce
    \/ StartSpawn
    \/ \E t \in DOMAIN threads : FindActive(t)
    \/ \E t \in DOMAIN threads : Reconcile(t)
    \/ \E t \in DOMAIN threads : LoopEnter(t)
    \/ \E t \in DOMAIN threads : LoopDone(t)
    \/ \E t \in DOMAIN threads : LoopTick(t)
    \/ NotifySync
    \/ \E w \in DOMAIN workers : WorkerEnter(w)
    \/ \E w \in DOMAIN workers : WorkerReturn(w)
    \/ \E w \in DOMAIN workers : WorkerTick(w)
    \/ StopBegin
    \/ StopLocked
    \/ StopWaited
    \/ ReinitStopReturn
    \/ DbToggle
    \/ ReinitClose

SpecReinit == InitReinit /\ [][NextReinit]_vars

----------------------------------------------------------------------------
(* collectForConfig: the ticker cases *)

\* collectData returns on a snapshot error before it touches busStates
SnapshotError_DropsAll(states) == Empty

SnapshotError(states) == states

NoCalls ==
    /\ arrivals' = <<>>
    /\ responses' = Empty
    /\ lookups' = Empty
    /\ creates' = Empty
    /\ removed' = Empty

Fire ==
    /\ ticks < MaxTicks
    /\ ticks' = ticks + 1
    /\ now' = now + interval
    /\ UNCHANGED supVars
    /\ UNCHANGED tripVars

\* ticker.C fires outside the time window
TickClosed ==
    \E h \in TickHours :
        /\ Fire
        /\ ~isWithinTimeWindow(startHour, endHour, h)
        /\ hour' = h
        /\ open' = FALSE
        /\ tick' = "closed"
        /\ fetched' = FALSE
        /\ NoCalls
        /\ persisted' = Restrict(persisted, DOMAIN busStates)
        /\ attempts' = Restrict(attempts, DOMAIN busStates)
        /\ scenario' = ScenarioIdle(scenario)
        /\ UNCHANGED <<interval, startHour, endHour, busStates, records>>

\* ticker.C fires, GetRouteArrivalList returns an error
TickError ==
    \E h \in TickHours :
        /\ Fire
        /\ isWithinTimeWindow(startHour, endHour, h)
        /\ hour' = h
        /\ open' = TRUE
        /\ tick' = "error"
        /\ fetched' = TRUE
        /\ NoCalls
        /\ busStates' = SnapshotError(busStates)
        /\ persisted' = Restrict(persisted, DOMAIN busStates')
        /\ attempts' = Restrict(attempts, DOMAIN busStates')
        /\ scenario' = ScenarioIdle(scenario)
        /\ UNCHANGED <<interval, startHour, endHour, records>>

\* ticker.C fires, GetRouteArrivalList returns a snapshot out of snaps
CollectTick(snaps, keep) ==
    \E h \in TickHours, snap \in snaps :
        /\ Fire
        /\ isWithinTimeWindow(startHour, endHour, h)
        /\ open' = TRUE
        /\ tick' = "collected"
        /\ fetched' = TRUE
        /\ LET t == now + interval
               tracked == ProcessArrivals(busStates, snap, t)
           IN  \E res \in [LookedUp(tracked, snap) -> LocationResponses] :
                 \E ok \in [Creators(tracked, t, res) -> BOOLEAN] :
                   \E ord \in Orderings(Saved(ok)) :
                     /\ Len(records) + Cardinality(Saved(ok)) <= MaxRecords
                     /\ collectData(snap, t, res, ok, ord)
                     /\ responses' = (IF keep THEN res ELSE Empty)
                     /\ scenario' = ScenarioStep(scenario, snap, res, ok)
        /\ hour' = h
        /\ UNCHANGED <<interval, startHour, endHour>>

TickCollect == CollectTick(Snapshots, FALSE)

Init ==
    /\ now = 0
    /\ ticks = 0
    /\ interval \in Intervals
    /\ \E w \in WindowConfigs : startHour = w[1] /\ endHour = w[2]
    /\ hour = 0
    /\ open = TRUE
    /\ busStates = Empty
    /\ records = <<>>
    /\ tick = "none"
    /\ fetched = FALSE
    /\ attempts = Empty
    /\ arrivals = <<>>
    /\ responses = Empty
    /\ lookups = Empty
    /\ creates = Empty
    /\ removed = Empty
    /\ persisted = Empty
    /\ scenario = "start"
    /\ SupIdle
    /\ TripIdle

Next == TickClosed \/ TickError \/ TickCollect

Spec == Init /\ [][Next]_vars

----------------------------------------------------------------------------
(* The time-window gate alone, for every configured window and every hour *)

GateCheck ==
    \E h \in Hours :
        /\ tick = "none"
        /\ hour' = h
        /\ open' = isWithinTimeWindow(startHour, endHour, h)
        /\ tick' = IF open' THEN "opened" ELSE "closed"
        /\ UNCHANGED <<now, ticks, interval, startHour, endHour, busStates, records,
                       fetched, attempts, arrivals, responses, lookups, creates, removed,
                       persisted, scenario>>
        /\ UNCHANGED supVars
        /\ UNCHANGED tripVars

InitGate ==
    /\ now = 0
    /\ ticks = 0
    /\ interval \in Intervals
    /\ startHour \in Hours
    /\ endHour \in Hours
    /\ hour = 0
    /\ open = TRUE
    /\ busStates = Empty
    /\ records = <<>>
    /\ tick = "none"
    /\ fetched = FALSE
    /\ attempts = Empty
    /\ arrivals = <<>>
    /\ responses = Empty
    /\ lookups = Empty
    /\ creates = Empty
    /\ removed = Empty
    /\ persisted = Empty
    /\ scenario = "start"
    /\ SupIdle
    /\ TripIdle

NextGate == GateCheck

SpecGate == InitGate /\ [][NextGate]_vars

----------------------------------------------------------------------------
(* One confirmation lookup: a worker whose map holds one unrecorded entry   *)
(* gets a tick whose snapshot lacks the plate.  The entry is one a run can  *)
(* have left: times on the ticker grid, PassedAt unset or set by a tick     *)
(* that kept the entry.                                                     *)

PendingEntries(i) ==
    {[PlateNo |-> "A1", FirstSeenAt |-> i, LastSeenAt |-> l * i,
      SeatsBefore |-> s, LocationNo |-> 1, Recorded |-> FALSE,
      PendingArrivalID |-> 0, PassedAt |-> pa * i, RetryCount |-> rc] :
        l \in 1 .. 3, s \in ArrSeats, pa \in 0 .. 4, rc \in 0 .. 2}

Leftover(e, i, t) ==
    \/ e.PassedAt = ZeroTime /\ e.RetryCount = 0
    \/ /\ e.PassedAt > e.LastSeenAt
       /\ e.PassedAt <= t
       /\ ~StaleAbsent(e, e.PassedAt)
       /\ e.RetryCount <= ((t - e.PassedAt) \div i) + 1

\* ticker.C fires, the snapshot has no tracked plate; the responses are kept
TickLookup == CollectTick({<<>>, <<NoPlate>>}, TRUE)

InitLookup ==
    /\ interval \in Intervals
    /\ now = 4 * interval
    /\ ticks = MaxTicks - 1
    /\ \E w \in WindowConfigs : startHour = w[1] /\ endHour = w[2]
    /\ hour = 23
    /\ open = TRUE
    /\ \E e \in PendingEntries(interval) :
          /\ Leftover(e, interval, now)
          /\ busStates = [p \in {"A1"} |-> e]
    /\ records = <<>>
    /\ tick = "none"
    /\ fetched = FALSE
    /\ attempts = [p \in {"A1"} |-> 0]
    /\ arrivals = <<>>
    /\ responses = Empty
    /\ lookups = Empty
    /\ creates = Empty
    /\ removed = Empty
    /\ persisted = [p \in {"A1"} |-> 0]
    /\ scenario = "off"
    /\ SupIdle
    /\ TripIdle

NextLookup == TickLookup

SpecLookup == InitLookup /\ [][NextLookup]_vars

----------------------------------------------------------------------------
(* A worker late in the first hour of an entry: A1 was first seen at the    *)
(* first tick and has been listed since, up to the tick at one hour or the  *)
(* tick before it, where it was missed for the first time and either       *)
(* recorded at once or left pending.  The next ticks are followed.         *)

AgedEntries(i, t) ==
    {[PlateNo |-> "A1", FirstSeenAt |-> i, LastSeenAt |-> l,
      SeatsBefore |-> 6, LocationNo |-> 1, Recorded |-> r,
      PendingArrivalID |-> 0, PassedAt |-> IF l = t THEN ZeroTime ELSE t,
      RetryCount |-> rc] :
        l \in {x \in {t - i, t} : x >= i}, r \in BOOLEAN, rc \in 0 .. 1}

\* An entry the ticks up to t can have left in the map
Aged(e, t) ==
    /\ ~TooOld(e, t)
    /\ e.PassedAt = ZeroTime => ~e.Recorded /\ e.RetryCount = 0
    /\ e.PassedAt # ZeroTime =>
          /\ ~StaleAbsent(e, t)
          /\ e.Recorded => e.RetryCount = 0 \/ TimedOut(e, t)
          /\ ~e.Recorded => e.RetryCount = 1 /\ ~TimedOut(e, t)

FollowedTicks == 3

InitRetain ==
    /\ interval \in Intervals
    /\ now = Ceiling
    /\ ticks = MaxTicks - FollowedTicks
    /\ \E w \in WindowConfigs : startHour = w[1] /\ endHour = w[2]
    /\ hour = 23
    /\ open = TRUE
    /\ \E e \in AgedEntries(interval, now) :
          /\ Aged(e, now)
          /\ busStates = [p \in {"A1"} |-> e]
          /\ persisted = [p \in {"A1"} |-> IF e.Recorded THEN 1 ELSE 0]
          /\ attempts = [p \in {"A1"} |-> IF e.Recorded THEN 1 ELSE 0]
    /\ records = <<>>
    /\ tick = "none"
    /\ fetched = FALSE
    /\ arrivals = <<>>
    /\ responses = Empty
    /\ lookups = Empty
    /\ creates = Empty
    /\ removed = Empty
    /\ scenario = "off"
    /\ SupIdle
    /\ TripIdle

NextRetain == TickClosed \/ TickError \/ TickCollect

SpecRetain == InitRetain /\ [][NextRetain]_vars

----------------------------------------------------------------------------
(* BusRepository.GetTripByArrivalID.  A row of the table is a row of        *)
(* bus_arrivals joined with its route_configs row; its ID is its index.    *)
(* Times are in hours; the rows were inserted in the order of their        *)
(* arrival times.                                                          *)

MaxRows == 3

\* Half of the "12-hour window" around the target's arrival time, in hours
TripWindow == 6

\* sta_order of the monitored stations
StaOrders == 1 .. 3

\* arrival_time values: 6 and 7 hours after the first, and one hour apart
TripTimes == {0, 6, 7}

\* bus_number and route_id of a row
TripBuses == {[BusNumber |-> "A1", RouteID |-> "R1"],
              [BusNumber |-> "B2", RouteID |-> "R1"],
              [BusNumber |-> "A1", RouteID |-> "R2"]}

\* model.BusArrivalWithConfig: the fields GetTripByArrivalID reads
TripRow(b, t, o) ==
    [BusNumber |-> b.BusNumber, RouteID |-> b.RouteID, ArrivalTime |-> t, StaOrder |-> o]

Tables ==
    UNION {{tbl \in [1 .. n -> {TripRow(b, t, o) : b \in TripBuses, t \in TripTimes,
                                                   o \in StaOrders}] :
               \A i \in 1 .. n - 1 : tbl[i].ArrivalTime <= tbl[i + 1].ArrivalTime} :
           n \in 1 .. MaxRows}

\* FindByID: nil when there is no such row
FindByID(tbl, id) == IF id \in DOMAIN tbl THEN <<tbl[id]>> ELSE <<>>

\* WHERE ba.bus_number = ? AND rc.route_id = ? AND ba.arrival_time BETWEEN ? AND ?
TripQuery(tbl, target) ==
    {i \in DOMAIN tbl :
        /\ tbl[i].BusNumber = target.BusNumber
        /\ tbl[i].RouteID = target.RouteID
        /\ tbl[i].ArrivalTime >= target.ArrivalTime - TripWindow
        /\ tbl[i].ArrivalTime <= target.ArrivalTime + TripWindow}

\* ORDER BY ba.arrival_time ASC: rows of equal time come in any order
TimeOrders(tbl, ids) ==
    {o \in Orderings(ids) :
        \A i \in DOMAIN o : \A j \in DOMAIN o :
            i < j => tbl[o[i]].ArrivalTime <= tbl[o[j]].ArrivalTime}

\* targetIndex
TargetIndex(all, id) == CHOOSE k \in DOMAIN all : all[k] = id

SameTrip_OrEqual(a, b) == a.StaOrder <= b.StaOrder

\* "If the previous station order is less than current, it's the same trip"
SameTrip(a, b) == a.StaOrder < b.StaOrder

\* "Go backwards from targetIndex"
RECURSIVE StartIdx(_, _, _)
StartIdx(tbl, all, i) ==
    IF i > 1 /\ SameTrip(tbl[all[i - 1]], tbl[all[i]])
    THEN StartIdx(tbl, all, i - 1)
    ELSE i

\* "Go forwards from targetIndex"
RECURSIVE EndIdx(_, _, _)
EndIdx(tbl, all, i) ==
    IF i < Len(all) /\ SameTrip(tbl[all[i]], tbl[all[i + 1]])
    THEN EndIdx(tbl, all, i + 1)
    ELSE i

\* GetTripByArrivalID(id) on a table whose query returns the rows all
TripSegment(tbl, all, id) ==
    LET k == TargetIndex(all, id)
    IN  SubSeq(all, StartIdx(tbl, all, k), EndIdx(tbl, all, k))

\* The call of GetTripByArrivalID, for an ID of the table or one past it
GetTripByArrivalID ==
    /\ trip = NoTrip
    /\ \E id \in 1 .. Len(table) + 1 :
          LET target == FindByID(table, id)
          IN  IF target = <<>>
              THEN trip' = [id |-> id, found |-> FALSE, all |-> <<>>, rows |-> <<>>]
              ELSE \E all \in TimeOrders(table, TripQuery(table, target[1])) :
                      trip' = [id |-> id, found |-> TRUE, all |-> all,
                               rows |-> TripSegment(table, all, id)]
    /\ UNCHANGED table
    /\ UNCHANGED <<trackVars, supVars>>

InitTrip ==
    /\ TrackIdle
    /\ SupIdle
    /\ table \in Tables
    /\ trip = NoTrip

NextTrip == GetTripByArrivalID

SpecTrip == InitTrip /\ [][NextTrip]_vars

----------------------------------------------------------------------------
(* Properties *)

\* The entry of plate p as the last tick left it: kept, or removed by that tick.
EntryAfter(p) == IF p \in DOMAIN busStates THEN busStates[p] ELSE removed[p]

\* The plate is tracked, not yet recorded, and missing from the next snapshot.
Passing(p) ==
    /\ p \in DOMAIN busStates
    /\ ~busStates[p].Recorded
    /\ p \notin CurrentBuses(arrivals')

Elapsed(p) == now - EntryAfter(p).PassedAt

\* C1 (finalize-once): an entry has at most one successful Create; Recorded
\* is true exactly when that Create has happened, never returns to false,
\* and Create is never called for an entry that is already Recorded.
C1_FinalizeOnce ==
    /\ [](\A p \in DOMAIN persisted :
            /\ persisted[p] <= 1
            /\ EntryAfter(p).Recorded <=> persisted[p] = 1)
    /\ [][/\ \A p \in DOMAIN busStates :
                busStates[p].Recorded => EntryAfter(p)'.Recorded
          /\ \A p \in DOMAIN creates' :
                p \in DOMAIN busStates /\ ~busStates[p].Recorded]_vars

\* A recorded entry was visited again, absent from the snapshot, without a Create.
C1_Witness ==
    /\ tick = "collected"
    /\ "A1" \in DOMAIN busStates
    /\ busStates["A1"].Recorded
    /\ persisted["A1"] = 1
    /\ "A1" \notin CurrentBuses(arrivals)
    /\ creates = Empty
    /\ Len(records) = 1

C3_ConfirmationShortCircuit ==
    [][tick' = "collected" =>
        \A p \in DOMAIN busStates :
            Passing(p) =>
                /\ p \in DOMAIN lookups'
                /\ lookups'[p] # <<>> =>
                    /\ lookups'[p][1] >= 0
                    /\ p \in DOMAIN creates'
                    /\ creates'[p].arrival.SeatsAfter = lookups'[p]
                    /\ EntryAfter(p)'.RetryCount = busStates[p].RetryCount
                    /\ creates'[p].ok =>
                        /\ EntryAfter(p)'.Recorded
                        /\ \E i \in Len(records) + 1 .. Len(records') :
                              records'[i] = creates'[p].arrival]_vars

\* A confirmed record is written before the timeout has run out.
C3_Witness ==
    /\ tick = "collected"
    /\ "A1" \in DOMAIN creates
    /\ creates["A1"].ok
    /\ creates["A1"].arrival.SeatsAfter = <<4>>
    /\ EntryAfter("A1").Recorded
    /\ Elapsed("A1") < ConfirmTimeout
    /\ records[Len(records)].SeatsAfter = <<4>>

\* C4 as stated: seats-before is present, a stored record with seats-after
\* present was made at a tick with now - PassedAt < 2 minutes, and one made
\* at a tick with now - PassedAt >= 2 minutes has seats-after absent.
C4_Original ==
    \A p \in DOMAIN creates :
        creates[p].ok =>
            /\ creates[p].arrival.SeatsBefore # <<>>
            /\ creates[p].arrival.SeatsAfter # <<>> => Elapsed(p) < ConfirmTimeout
            /\ Elapsed(p) >= ConfirmTimeout => creates[p].arrival.SeatsAfter = <<>>

\* C4, amended: every record carries the entry's seats-before; its
\* seats-after is the result of the lookup made in the finalizing tick,
\* present exactly when that lookup succeeded, also at or after the 2-minute
\* timeout; a record with seats-after absent is made only at a tick with
\* now - PassedAt >= 2 minutes.
C4_SeatsPresence ==
    \A p \in DOMAIN creates :
        /\ creates[p].arrival.SeatsBefore = <<EntryAfter(p).SeatsBefore>>
        /\ p \in DOMAIN lookups
        /\ creates[p].arrival.SeatsAfter = lookups[p]
        /\ creates[p].arrival.SeatsAfter = <<>> => Elapsed(p) >= ConfirmTimeout

\* A record with seats-after present is stored at the timeout or later.
C4_Witness ==
    /\ "A1" \in DOMAIN creates
    /\ creates["A1"].ok
    /\ creates["A1"].arrival.SeatsAfter # <<>>
    /\ Elapsed("A1") >= ConfirmTimeout

\* The readings of plate p in a snapshot, in the order of the snapshot.
ReadingsOf(arrs, p) == SelectSeq(arrs, LAMBDA a : a.PlateNo = p)

SmallestOrdinal(rs, start) ==
    CHOOSE m \in {start} \cup {rs[i].LocationNo1 : i \in DOMAIN rs} :
        /\ m <= start
        /\ \A i \in DOMAIN rs : m <= rs[i].LocationNo1

FirstAt(rs, m) ==
    rs[CHOOSE i \in DOMAIN rs :
          /\ rs[i].LocationNo1 = m
          /\ \A j \in 1 .. i - 1 : rs[j].LocationNo1 # m]

Reading(ordinal, seats) ==
    [PlateNo |-> "A1", LocationNo1 |-> ordinal, RemainSeatCnt |-> seats]

\* The entry after the four sightings of the example, ordinals 5, 3, 4, 2.
ApproachExample ==
    ProcessArrivals(
        ProcessArrivals(
            ProcessArrivals(
                ProcessArrivals(Empty, <<Reading(5, 50)>>, 1),
                <<Reading(3, 30)>>, 2),
            <<Reading(4, 40)>>, 3),
        <<Reading(2, 20)>>, 4)["A1"]

C7_Original ==
    [][\A p \in DOMAIN busStates \cap DOMAIN busStates' :
          busStates[p].Recorded => busStates'[p] = busStates[p]]_vars

\* C7 (a recorded entry is inert), amended: for a recorded entry no lookup
\* and no Create is made, Recorded, FirstSeenAt, PassedAt and RetryCount
\* never change, and a tick whose snapshot lacks the plate changes none of
\* its fields; a tick whose snapshot contains the plate again sets LastSeenAt
\* to now and, on a closer ordinal, overwrites SeatsBefore and LocationNo.
C7_RecordedInert ==
    [][\A p \in DOMAIN busStates :
          busStates[p].Recorded =>
              /\ p \notin DOMAIN lookups'
              /\ p \notin DOMAIN creates'
              /\ EntryAfter(p)'.Recorded
              /\ EntryAfter(p)'.FirstSeenAt = busStates[p].FirstSeenAt
              /\ EntryAfter(p)'.PassedAt = busStates[p].PassedAt
              /\ EntryAfter(p)'.RetryCount = busStates[p].RetryCount
              /\ p \notin CurrentBuses(arrivals') => EntryAfter(p)' = busStates[p]
              /\ p \in CurrentBuses(arrivals') =>
                    /\ EntryAfter(p)'.LastSeenAt = now'
                    /\ EntryAfter(p)'.LocationNo <= busStates[p].LocationNo]_vars

\* A recorded entry whose plate came back: seen again after it had passed.
C7_Witness ==
    /\ tick = "collected"
    /\ "A1" \in DOMAIN busStates
    /\ busStates["A1"].Recorded
    /\ "A1" \in CurrentBuses(arrivals)
    /\ busStates["A1"].LastSeenAt = now
    /\ busStates["A1"].PassedAt < now

C9_Original ==
    \A p \in DOMAIN busStates :
        ~busStates[p].Recorded => now - busStates[p].FirstSeenAt < Ceiling

\* C9 (cleanup ceiling), amended: after every collected tick no entry,
\* recorded or not, was first seen more than 1 hour ago; an entry first seen
\* exactly 1 hour ago is still kept, and ticks skipped by a closed window or a
\* snapshot error remove nothing.
C9_Ceiling ==
    /\ [](tick = "collected" =>
            \A p \in DOMAIN busStates : now - busStates[p].FirstSeenAt <= Ceiling)
    /\ [][tick' # "collected" => busStates' = busStates]_vars

\* An unrecorded entry whose plate is still in the snapshot went at the ceiling.
C9_Witness ==
    /\ tick = "collected"
    /\ "A1" \in DOMAIN removed
    /\ "A1" \in CurrentBuses(arrivals)
    /\ ~removed["A1"].Recorded
    /\ removed["A1"].PassedAt = ZeroTime
    /\ now - removed["A1"].FirstSeenAt > Ceiling

\* C10 (time-window gate): the gate is open exactly when startHour and
\* endHour are both 0, or startHour < endHour and startHour <= hour < endHour,
\* or startHour > endHour and (hour >= startHour or hour < endHour), or
\* startHour = endHour # 0 and hour = startHour.
C10_TimeWindowGate ==
    tick # "none" =>
        (open <=>
            \/ startHour = 0 /\ endHour = 0
            \/ startHour < endHour /\ startHour <= hour /\ hour < endHour
            \/ startHour > endHour /\ (hour >= startHour \/ hour < endHour)
            \/ startHour = endHour /\ startHour # 0 /\ hour = startHour)

\* With the window 22 to 2, hour 1 is inside.
C10_Witness ==
    /\ tick = "opened"
    /\ startHour = 22
    /\ endHour = 2
    /\ hour = 1
    /\ open

\* The active window as the specification words it, for hour h.
InsideWindow(h) ==
    \/ startHour = 0 /\ endHour = 0
    \/ startHour < endHour /\ startHour <= h /\ h < endHour
    \/ startHour > endHour /\ (h >= startHour \/ h < endHour)
    \/ startHour = endHour /\ startHour # 0 /\ h = startHour

\* The tick made no confirmation lookup and no Create, and wrote no row.
NoLookupNoCreate ==
    /\ lookups' = Empty
    /\ creates' = Empty
    /\ records' = records

\* C11 (closed window): a ticker fire at an hour outside the active window
\* calls neither GetRouteArrivalList nor GetBusLocations nor Create, and
\* leaves busStates, entries and fields, as it was.
C11_ClosedWindowNoOp ==
    [][~InsideWindow(hour') =>
          /\ ~fetched'
          /\ NoLookupNoCreate
          /\ busStates' = busStates]_vars

\* A tick outside the window found an entry waiting for its confirmation.
C11_Witness ==
    /\ tick = "closed"
    /\ ~fetched
    /\ ~InsideWindow(hour)
    /\ "A1" \in DOMAIN busStates
    /\ ~busStates["A1"].Recorded
    /\ busStates["A1"].PassedAt # ZeroTime
    /\ now - busStates["A1"].PassedAt >= ConfirmTimeout

\* C12 (snapshot error): a tick whose GetRouteArrivalList call fails leaves
\* busStates as it was and makes no lookup and no Create; the worker is not
\* stopped by it: while the ticker keeps firing, the next fire can poll and
\* collect again.
C12_SnapshotErrorSkipsTick ==
    /\ [][tick' = "error" =>
              /\ fetched'
              /\ NoLookupNoCreate
              /\ busStates' = busStates]_vars
    /\ []((tick = "error" /\ ticks < MaxTicks) => ENABLED TickCollect)

\* The snapshot failed while an entry was waiting past the timeout.
C12_Witness ==
    /\ tick = "error"
    /\ fetched
    /\ ticks < MaxTicks
    /\ "A1" \in DOMAIN busStates
    /\ ~busStates["A1"].Recorded
    /\ busStates["A1"].PassedAt # ZeroTime
    /\ now - busStates["A1"].PassedAt >= ConfirmTimeout

\* C13 (Persist failure): a failed Create leaves the entry unrecorded and
\* without a row; the Create calls made for one entry number at most one per
\* tick of its first hour plus one, and after every collected tick no entry
\* first seen more than 1 hour ago is left in the map.
C13_PersistFailureBounded ==
    /\ \A p \in DOMAIN creates :
          ~creates[p].ok => ~EntryAfter(p).Recorded /\ persisted[p] = 0
    /\ \A p \in DOMAIN attempts : attempts[p] <= (Ceiling \div interval) + 1
    /\ tick = "collected" =>
          \A p \in DOMAIN busStates : now - busStates[p].FirstSeenAt <= Ceiling

\* Create failed a second time for an entry that is still tracked.
C13_Witness ==
    /\ "A1" \in DOMAIN creates
    /\ ~creates["A1"].ok
    /\ "A1" \in DOMAIN busStates
    /\ ~busStates["A1"].Recorded
    /\ attempts["A1"] = 2
    /\ persisted["A1"] = 0

\* The three cases of "no confirmation" for plate p in response r: the fetch
\* failed, the plate is not listed, or its first listing has a negative count.
FetchFailed(r) == r.err

NotListed(r, p) == ~r.err /\ \A i \in DOMAIN r.locations : r.locations[i].PlateNo # p

FirstListing(r, p) ==
    r.locations[CHOOSE i \in DOMAIN r.locations :
                    /\ r.locations[i].PlateNo = p
                    /\ \A j \in 1 .. i - 1 : r.locations[j].PlateNo # p]

Sentinel(r, p) ==
    /\ ~r.err
    /\ ~NotListed(r, p)
    /\ FirstListing(r, p).RemainSeatCnt < 0

NoConfirmation(r, p) == FetchFailed(r) \/ NotListed(r, p) \/ Sentinel(r, p)

\* The entry e after a tick at time t without confirmation; saved is whether
\* the Create of the forced finalization succeeded.
Unconfirmed(e, t, saved) ==
    LET pa == IF e.PassedAt = ZeroTime THEN t ELSE e.PassedAt
    IN  [e EXCEPT !.PassedAt = pa,
                  !.RetryCount = @ + 1,
                  !.Recorded = (t - pa >= ConfirmTimeout /\ saved)]

\* C14 (confirmation policy): the lookup gives no confirmation exactly when
\* the location fetch fails, the plate is not in the list, or the plate's
\* listing has a negative seat count; in each of the three the entry gets
\* RetryCount + 1 and stays pending while now - PassedAt < 2 minutes, with
\* no Create, and otherwise gets a Create with seats-after absent; the tick
\* runs to its end as a collected tick.
C14_ConfirmationPolicy ==
    [][\A p \in DOMAIN responses' :
          /\ tick' = "collected"
          /\ p \in DOMAIN busStates
          /\ lookups'[p] = <<>> <=> NoConfirmation(responses'[p], p)
          /\ NoConfirmation(responses'[p], p) =>
                /\ EntryAfter(p)' =
                      Unconfirmed(busStates[p], now',
                                  p \in DOMAIN creates' /\ creates'[p].ok)
                /\ p \in DOMAIN creates'
                      <=> now' - EntryAfter(p)'.PassedAt >= ConfirmTimeout
                /\ p \in DOMAIN creates' => creates'[p].arrival.SeatsAfter = <<>>]_vars

\* The sentinel was answered before the timeout: the entry stays pending.
C14_Witness ==
    /\ tick = "collected"
    /\ "A1" \in DOMAIN responses
    /\ Sentinel(responses["A1"], "A1")
    /\ Len(responses["A1"].locations) = 2
    /\ "A1" \in DOMAIN busStates
    /\ busStates["A1"].RetryCount = 2
    /\ now - busStates["A1"].PassedAt < ConfirmTimeout
    /\ creates = Empty

\* The step was the locked part of a syncConfigs run on the fetched set.
Reconciled == event'.op = "reconciled"

Fetched == DOMAIN event'.configs

\* C15 (reconciliation postcondition): when a syncConfigs run whose fetch
\* succeeded releases the mutex, the keys of the worker map are the fetched
\* active IDs; every worker whose ID is not fetched had its stopChan closed
\* and was removed, and every fetched ID without a worker got exactly one
\* new worker, whose goroutine was started.
C15_ReconcilePostcondition ==
    [][Reconciled =>
          /\ DOMAIN collectors' = Fetched
          /\ \A id \in DOMAIN collectors \ Fetched :
                /\ workers'[collectors[id]].stopClosed
                /\ collectors[id] \in event'.stopped
          /\ \A id \in Fetched \ DOMAIN collectors :
                /\ collectors'[id] \in DOMAIN workers' \ DOMAIN workers
                /\ workers'[collectors'[id]] = Worker(id, event'.configs[id])
          /\ \A id \in Fetched \cap DOMAIN collectors : collectors'[id] = collectors[id]
          /\ Len(workers') = Len(workers) + Cardinality(Fetched \ DOMAIN collectors)
          /\ wg' = wg + Cardinality(Fetched \ DOMAIN collectors)]_vars

\* One run stopped the worker of a config that left and started one for a new config.
C15_Witness ==
    /\ event.op = "reconciled"
    /\ event.started # {}
    /\ event.stopped # {}
    /\ DOMAIN collectors = DOMAIN event.configs
    /\ \A w \in event.stopped : workers[w].stopClosed

\* C16 (reconciliation idempotence): a syncConfigs run on the set the worker
\* map already holds, as left by a run on the same set, starts no worker and
\* stops none; the map, the stop channels and the worker goroutines are as
\* before.
C16_ReconcileIdempotent ==
    [][(Reconciled /\ Fetched = DOMAIN collectors) =>
          /\ collectors' = collectors
          /\ workers' = workers
          /\ wg' = wg
          /\ event'.started = {}
          /\ event'.stopped = {}]_vars

\* A run found both configs running and did nothing.
C16_Witness ==
    /\ event.op = "reconciled"
    /\ DOMAIN event.configs = ConfigIDs
    /\ event.started = {}
    /\ event.stopped = {}
    /\ DOMAIN collectors = ConfigIDs
    /\ \A id \in ConfigIDs : Live(collectors[id])

\* C17 (config fetch failure): a syncConfigs run whose FindActive fails
\* starts and stops no worker and leaves the worker map as it was; the
\* caller goes on: Start starts its loop, the loop returns to its select.
C17_FetchFailureSkipsCycle ==
    /\ [][event'.op = "fetch_failed" =>
              /\ collectors' = collectors
              /\ workers' = workers
              /\ wg' = wg
              /\ ~crashed']_vars
    /\ [](event.op = "fetch_failed" =>
              ENABLED (StartSpawn \/ \E t \in DOMAIN threads : LoopEnter(t)))

\* The fetch failed while the table and the worker map disagreed.
C17_Witness ==
    /\ event.op = "fetch_failed"
    /\ collectors # Empty
    /\ DOMAIN dbActive # DOMAIN collectors
    /\ \E t \in DOMAIN threads : threads[t].kind = "loop" /\ threads[t].pc = "enter"

\* C18 (worker identity): a syncConfigs run keeps the worker of every
\* fetched ID that has one, whatever the route/station/name fields of the
\* fetched config are: the map entry, the stop channel and the goroutine,
\* which owns the tracking map, are untouched.
C18_IdentityByConfigID ==
    [][Reconciled =>
          \A id \in Fetched \cap DOMAIN collectors :
              /\ id \in DOMAIN collectors'
              /\ collectors'[id] = collectors[id]
              /\ workers'[collectors[id]] = workers[collectors[id]]
              /\ collectors[id] \notin event'.started \cup event'.stopped]_vars

\* A run met an edited config whose worker was started with the old fields.
C18_Witness ==
    /\ event.op = "reconciled"
    /\ 1 \in DOMAIN event.configs \cap DOMAIN collectors
    /\ workers[collectors[1]].rev # event.configs[1]
    /\ workers[collectors[1]].pc = "select"
    /\ ~workers[collectors[1]].stopClosed
    /\ event.started = {}

\* Stop has just returned.
StopReturned == event.op = "stopped"

\* Stop has returned and Start has not been called since.
Stopped ==
    /\ threads[AppThread].pc = "idle"
    /\ mainCancel = 0
    /\ Len(cancelled) > 0

\* C19 (Stop blocks until drained): when Stop returns, every worker
\* goroutine started so far has exited, whether Stop or an earlier
\* reconciliation closed its stop channel.
C19_StopDrains ==
    StopReturned => \A w \in DOMAIN workers : ~Live(w)

\* C20 (Stopped state): from the return of Stop to the next Start the
\* supervisor holds no context, the worker map is empty and no
\* reconciliation loop is alive.
C20_StoppedState ==
    Stopped =>
        /\ mainCtx = 0
        /\ collectors = Empty
        /\ \A t \in DOMAIN threads : threads[t].kind = "loop" => threads[t].pc = "gone"

\* The stop channel of the worker is closed, or the context it waits on is cancelled.
Signaled(w) ==
    \/ workers[w].stopClosed
    \/ workers[w].ctx # 0 /\ cancelled[workers[w].ctx]

\* C21 (prompt cancellation): a worker whose stop channel is closed or whose
\* context is cancelled while it waits in its select begins no further tick,
\* also when the ticker is ready at the same time, and it can return; the
\* two signals are treated alike.
C21_PromptCancellation ==
    /\ [][\A w \in DOMAIN workers :
             (workers[w].pc = "select" /\ Signaled(w)) => workers'[w].pc # "collect"]_vars
    /\ [](\A w \in DOMAIN workers :
             (workers[w].pc = "select" /\ Signaled(w)) => ENABLED WorkerReturn(w))

\* C22 (sequential ticks): on the busStates map of one worker at most one
\* collectData execution is active at any time, the worker is inside it
\* exactly while it is active, and a tick begins only when the collectData
\* of the tick before has returned.
C22_TicksSequential ==
    /\ [](\A w \in DOMAIN workers :
             /\ workers[w].running <= 1
             /\ workers[w].running = 1 <=> workers[w].pc = "collect")
    /\ [][\A w \in DOMAIN workers :
             workers'[w].running > workers[w].running => workers[w].running = 0]_vars

\* Two workers of config 1, the stopped one and its successor, each inside
\* collectData on its own map.
C22_Witness ==
    /\ Len(workers) = 2
    /\ \A w \in DOMAIN workers : workers[w].pc = "collect" /\ workers[w].running = 1
    /\ workers[1].stopClosed
    /\ event.op = "poll"

\* C23 (the worker map is guarded by c.mu): at most one goroutine is inside
\* a critical section; every step that inserts into or deletes from
\* collectors is taken by the goroutine that holds c.mu, in its critical
\* section of syncConfigs or Stop; no step of a worker goroutine changes
\* the map.
C23_MapUnderMutex ==
    /\ [](Cardinality(Holders) <= 1)
    /\ [][collectors' # collectors =>
             \E t \in Holders :
                 /\ threads'[t].pc # threads[t].pc
                 /\ threads[t].pc = "locked" => event'.op = "reconciled"
                 /\ threads[t].pc = "stop_locked" => event'.op = "emptied"]_vars
    /\ [][workers' # workers /\ threads' = threads => collectors' = collectors]_vars

\* A reconciliation has put a worker into the map while Stop waited for c.mu.
C23_Witness ==
    /\ event.op = "reconciled"
    /\ event.started # {}
    /\ threads[AppThread].pc = "stop_lock"
    /\ collectors # Empty
    /\ Holders = {}

\* The step was a tick that met an error, or a syncConfigs whose fetch failed.
TickFailed == event'.op \in {"snapshot_error", "lookup_error", "persist_error"}

RunsLoop(t) == threads[t].kind = "loop" /\ threads[t].pc # "gone"

\* C24 (errors never terminate): a worker goroutine returns only from its
\* select, with its stop channel closed or its context cancelled; a tick
\* that met a snapshot, confirmation or Persist error returns to the for
\* loop; the reconciliation loop returns only from its select on a
\* cancelled context, and neither such a tick nor a failed config fetch ends
\* it; a goroutine panics only after Stop has cancelled the context.
C24_OnlySignalsTerminate ==
    /\ [][\A w \in DOMAIN workers :
             (Live(w) /\ workers'[w].pc = "gone") =>
                 workers[w].pc = "select" /\ Signaled(w)]_vars
    /\ [][TickFailed =>
             /\ \A w \in DOMAIN workers : Live(w) => workers'[w].pc # "gone"
             /\ \E w \in DOMAIN workers :
                   workers[w].pc = "collect" /\ workers'[w].pc = "enter"]_vars
    /\ [][\A t \in DOMAIN threads :
             (RunsLoop(t) /\ threads'[t].pc = "gone") =>
                 threads[t].pc = "select" /\ cancelled[threads[t].ctx]]_vars
    /\ [][(TickFailed \/ event'.op = "fetch_failed") =>
             /\ ~crashed'
             /\ \A t \in DOMAIN threads : RunsLoop(t) => threads'[t].pc # "gone"]_vars
    /\ [](crashed => \E k \in DOMAIN cancelled : cancelled[k])

\* A tick whose Create failed has returned to the loop of a worker that was
\* not signaled, and the reconciliation loop is alive.
C24_Witness ==
    /\ event.op = "persist_error"
    /\ \E w \in DOMAIN workers :
          workers[w].pc = "enter" /\ ~workers[w].stopClosed
    /\ \E t \in DOMAIN threads : RunsLoop(t)
    /\ \A k \in DOMAIN cancelled : ~cancelled[k]

\* C25 (PassedAt is set once): a new entry has PassedAt unset; a tick sets
\* it, to the time of the tick, exactly when the tick is collected, the
\* snapshot lacks the plate and the entry is unrecorded with PassedAt unset;
\* once set it is never changed or cleared, also when the plate is seen
\* again and is missing again.
C25_PassedAtOnce ==
    [][/\ \A p \in DOMAIN busStates :
             LET e == busStates[p]
                 passes == /\ tick' = "collected"
                           /\ p \notin CurrentBuses(arrivals')
                           /\ ~e.Recorded
             IN  /\ e.PassedAt # ZeroTime => EntryAfter(p)'.PassedAt = e.PassedAt
                 /\ e.PassedAt = ZeroTime =>
                       EntryAfter(p)'.PassedAt = (IF passes THEN now' ELSE ZeroTime)
       /\ \A p \in DOMAIN busStates' \ DOMAIN busStates :
             busStates'[p].PassedAt = ZeroTime]_vars

\* The plate passed, was seen again, and is missing again while the entry
\* is still unrecorded: PassedAt is the time of the first passage.
C25_Witness ==
    /\ tick = "collected"
    /\ "A1" \in DOMAIN busStates
    /\ "A1" \notin CurrentBuses(arrivals)
    /\ "A1" \in DOMAIN lookups
    /\ busStates["A1"].PassedAt # ZeroTime
    /\ busStates["A1"].PassedAt < busStates["A1"].LastSeenAt
    /\ busStates["A1"].LastSeenAt < now

\* The snapshot lists a vehicle with plate p.
Listed(arrs, p) == \E i \in DOMAIN arrs : arrs[i].PlateNo = p

\* C26 (empty plate): a snapshot vehicle with an empty plate is skipped: the
\* map never gets an entry for the empty plate and no lookup or Create is
\* made for it; every entry made by a tick is for a non-empty plate of its
\* snapshot; every vehicle with a plate in the same snapshot is tracked as
\* seen now; and a tracked unrecorded plate that the snapshot does not list
\* is treated as absent, whatever plateless vehicles the snapshot holds.
C26_EmptyPlateSkipped ==
    /\ []("" \notin DOMAIN busStates \cup DOMAIN removed
                      \cup DOMAIN lookups \cup DOMAIN creates)
    /\ [][tick' = "collected" =>
             /\ \A p \in DOMAIN busStates' \ DOMAIN busStates :
                   p # "" /\ Listed(arrivals', p)
             /\ \A p \in Plates :
                   Listed(arrivals', p) => EntryAfter(p)'.LastSeenAt = now'
             /\ \A p \in DOMAIN busStates :
                   (~busStates[p].Recorded /\ ~Listed(arrivals', p)) =>
                       /\ p \in DOMAIN lookups'
                       /\ EntryAfter(p)'.LastSeenAt = busStates[p].LastSeenAt]_vars

\* A snapshot of a plateless vehicle followed by A1: A1 got its entry in
\* this tick and nothing else did.
C26_Witness ==
    /\ tick = "collected"
    /\ Len(arrivals) = 2
    /\ arrivals[1].PlateNo = ""
    /\ arrivals[2].PlateNo = "A1"
    /\ DOMAIN busStates = {"A1"}
    /\ busStates["A1"].FirstSeenAt = now
    /\ busStates["A1"].SeatsBefore = arrivals[2].RemainSeatCnt

\* C27 as stated: the arrival time of a stored record is the LastSeenAt the
\* entry had when PassedAt was set, so it is never later than PassedAt.
C27_Original ==
    \A p \in DOMAIN creates :
        creates[p].ok =>
            /\ creates[p].arrival.ArrivalTime = EntryAfter(p).LastSeenAt
            /\ creates[p].arrival.ArrivalTime <= EntryAfter(p).PassedAt

\* C27 (arrival time), amended: the arrival time of every Create is the
\* entry's LastSeenAt at the tick of the Create, which is the time of the
\* last collected tick whose snapshot listed the plate and is earlier than
\* the tick of the Create; when PassedAt is set LastSeenAt is earlier than
\* it, but a plate listed again afterwards moves LastSeenAt, and with it
\* the arrival time, past PassedAt.
C27_ArrivalTime ==
    /\ [](\A p \in DOMAIN creates :
             /\ creates[p].arrival.ArrivalTime = EntryAfter(p).LastSeenAt
             /\ creates[p].arrival.ArrivalTime < now
             /\ EntryAfter(p).PassedAt # ZeroTime
             /\ EntryAfter(p).PassedAt <= now)
    /\ [][\A p \in DOMAIN busStates :
             /\ EntryAfter(p)'.LastSeenAt =
                   (IF tick' = "collected" /\ Listed(arrivals', p) THEN now'
                    ELSE busStates[p].LastSeenAt)
             /\ (busStates[p].PassedAt = ZeroTime /\ EntryAfter(p)'.PassedAt # ZeroTime) =>
                   EntryAfter(p)'.LastSeenAt < EntryAfter(p)'.PassedAt
             /\ (busStates[p].PassedAt # ZeroTime /\ p \in DOMAIN creates'
                   /\ busStates[p].LastSeenAt > busStates[p].PassedAt) =>
                   creates'[p].arrival.ArrivalTime > EntryAfter(p)'.PassedAt]_vars

\* A record is stored whose arrival time is later than PassedAt: the plate
\* was listed again after its first disappearance.
C27_Witness ==
    /\ "A1" \in DOMAIN creates
    /\ creates["A1"].ok
    /\ creates["A1"].arrival.ArrivalTime > EntryAfter("A1").PassedAt
    /\ records[Len(records)].ArrivalTime = EntryAfter("A1").LastSeenAt

\* Start has been called and Stop has not.
Running == mainCancel # 0

\* Config id is active and has no worker in the map / is not active and has one.
Missing(id) == id \in DOMAIN dbActive /\ id \notin DOMAIN collectors

Orphan(id) == id \notin DOMAIN dbActive /\ id \in DOMAIN collectors

\* C28 (reconciliation convergence): while the supervisor runs and the
\* config fetches succeed, under fair scheduling a config that is active
\* and stays active gets a live worker in the map, and a config that is
\* inactive and stays inactive has its worker removed from the map with its
\* stop channel closed, by the periodic reconciliation alone, without any
\* NotifySync; and Start reaches the start of its loop only through a
\* reconciliation of its own.
C28_Convergence ==
    /\ \A id \in ConfigIDs :
          (Running /\ Missing(id)) ~>
              (id \notin DOMAIN dbActive
                 \/ (id \in DOMAIN collectors /\ Live(collectors[id])))
    /\ \A id \in ConfigIDs :
          (Running /\ Orphan(id)) ~>
              (id \in DOMAIN dbActive
                 \/ (id \notin DOMAIN collectors
                       /\ \A w \in DOMAIN workers :
                             workers[w].cfg = id => workers[w].stopClosed))
    /\ [][(threads[AppThread].pc # "spawn" /\ threads'[AppThread].pc = "spawn")
             => event'.op = "reconciled"]_vars

\* The loop's periodic reconciliation, not Start's, has started the worker
\* of a config that was switched on again after its first worker was stopped.
C28_Witness ==
    /\ event.op = "reconciled"
    /\ event.started = {2}
    /\ threads[AppThread].pc = "idle"
    /\ workers[1].stopClosed
    /\ 1 \in DOMAIN collectors
    /\ collectors[1] = 2

ScopeLive == mainCtx # 0 /\ ~cancelled[mainCtx]

\* Every worker goroutine and every reconciliation loop has ended.
AllEnded ==
    /\ \A w \in DOMAIN workers : ~Live(w)
    /\ \A t \in DOMAIN threads : ~RunsLoop(t)

\* C30 (IsRunning): whenever the caller can ask, IsRunning() is true
\* exactly when the supervisor owns a cancellation scope that is not
\* cancelled; it is false before the first Start, after Stop has returned,
\* and when all workers and the reconciliation loop have ended because the
\* context passed to Start was cancelled.
C30_IsRunningExact ==
    threads[AppThread].pc = "idle" =>
        /\ IsRunning <=> ScopeLive
        /\ (cancelled # <<>> /\ AllEnded /\ \A k \in DOMAIN cancelled : cancelled[k])
              => ~IsRunning

----------------------------------------------------------------------------
----------------------------------------------------------------------------
\* C32: one worker per configuration ID.  While a worker is executing a tick,
\* no other goroutine of the same config is alive: the worker that a
\* reconciliation starts for a reactivated config does not run beside the
\* signaled worker of the config's earlier activation.  Stated for a running
\* supervisor whose context is not cancelled, and for a signaled worker that
\* is inside a tick.
C32_OneWorkerPerConfig ==
    ScopeLive =>
        \A w1 \in DOMAIN workers : \A w2 \in DOMAIN workers \ {w1} :
            (/\ workers[w1].cfg = workers[w2].cfg
             /\ workers[w1].stopClosed
             /\ workers[w1].pc = "collect")
                => ~Live(w2)

----------------------------------------------------------------------------
\* The reconciliation loop goroutines among th that have not returned
Loops(th) == {t \in DOMAIN th : th[t].kind = "loop" /\ th[t].pc # "gone"}

\* C33: one reconciliation loop and no lost cancellation scope.  A step that
\* puts a new context into mainCtx replaces none or a cancelled one, and a
\* step that starts a reconciliation loop goroutine is taken when no other
\* loop goroutine exists: Start on a running supervisor does neither.
C33_SingleLoop ==
    [][/\ (mainCtx' \notin {0, mainCtx} /\ mainCtx # 0) => cancelled[mainCtx]
       /\ Cardinality(Loops(threads')) > Cardinality(Loops(threads))
            => Loops(threads) = {}]_vars

----------------------------------------------------------------------------
\* C34: restart works.  Whenever no Start or Stop call is under way, every
\* entry of the map belongs to a worker goroutine that has not returned, so
\* that the reconciliation of the next Start, which starts workers only for
\* the IDs that are not in the map, leaves no active config without a live
\* worker; also when a reconciliation ran beside the Stop.
C34_RestartWorks ==
    threads[AppThread].pc = "idle" =>
        \A id \in DOMAIN collectors : Live(collectors[id])

----------------------------------------------------------------------------
\* C35: the main context is never used while nil.  No goroutine evaluates
\* mainCtx.Done() on a nil mainCtx, which panics, and no reconciliation
\* starts a worker while mainCtx is nil.
C35_MainCtxNeverNil ==
    /\ ~crashed
    /\ (event.op = "reconciled" /\ event.started # {}) => mainCtx # 0

----------------------------------------------------------------------------
\* C36 as stated: a record with seats-after absent is made only when the
\* plate has been missing from every executed tick of the last 2 minutes.
\* The latest disappearance is later than the last sighting, so such a
\* record is made more than 2 minutes after the plate was last seen.
C36_Original ==
    \A p \in DOMAIN creates :
        creates[p].arrival.SeatsAfter = <<>>
            => now - EntryAfter(p).LastSeenAt > ConfirmTimeout

\* C36 (forced finalization), amended: the 2-minute window is measured from
\* the first disappearance.  A record with seats-after absent is made only
\* at a tick with now - PassedAt >= 2 minutes, where PassedAt is the time of
\* the first tick that missed the plate; a tick that sees the plate again
\* leaves PassedAt as it is, so the window is not restarted by a later
\* disappearance.
C36_ForcedFinalization ==
    [][\A p \in DOMAIN busStates :
          LET since == IF busStates[p].PassedAt = ZeroTime THEN now'
                       ELSE busStates[p].PassedAt
          IN  /\ (tick' = "collected" /\ Listed(arrivals', p))
                    => EntryAfter(p)'.PassedAt = busStates[p].PassedAt
              /\ (p \in DOMAIN creates' /\ creates'[p].arrival.SeatsAfter = <<>>)
                    => /\ ~Listed(arrivals', p)
                       /\ now' - since >= ConfirmTimeout]_vars

\* The plate passed, was seen again and is missing again: the forced record
\* is made at the first tick of the second disappearance, less than 2
\* minutes after the plate was last seen.
C36_Witness ==
    /\ tick = "collected"
    /\ "A1" \in DOMAIN creates
    /\ creates["A1"].arrival.SeatsAfter = <<>>
    /\ EntryAfter("A1").PassedAt < EntryAfter("A1").LastSeenAt
    /\ now - EntryAfter("A1").LastSeenAt < ConfirmTimeout

----------------------------------------------------------------------------
\* The first element of locs with plate p
FirstMatch(locs, p) ==
    locs[CHOOSE i \in DOMAIN locs :
            /\ locs[i].PlateNo = p
            /\ \A j \in 1 .. i - 1 : locs[j].PlateNo # p]

\* C37 (seat count 0 confirms): when the location fetch succeeds and lists
\* the plate, the first listing of the plate alone decides the lookup: a seat
\* count n >= 0, 0 included, is the confirmation and the Create of that tick
\* carries seats-after n; only n < 0 gives no confirmation, whatever a later
\* listing of the plate says.
C37_ZeroConfirms ==
    \A p \in DOMAIN responses :
        (~responses[p].err /\ Listed(responses[p].locations, p)) =>
            LET n == FirstMatch(responses[p].locations, p).RemainSeatCnt
            IN  /\ p \in DOMAIN lookups
                /\ lookups[p] = (IF n >= 0 THEN <<n>> ELSE <<>>)
                /\ n >= 0 => /\ p \in DOMAIN creates
                             /\ creates[p].arrival.SeatsAfter = <<n>>

\* The plate is listed with 0 seats: the record is stored with seats-after 0.
C37_Witness ==
    /\ tick = "collected"
    /\ "A1" \in DOMAIN responses
    /\ ~responses["A1"].err
    /\ Listed(responses["A1"].locations, "A1")
    /\ FirstMatch(responses["A1"].locations, "A1").RemainSeatCnt = 0
    /\ lookups["A1"] = <<0>>
    /\ "A1" \in DOMAIN creates
    /\ creates["A1"].ok
    /\ creates["A1"].arrival.SeatsAfter = <<0>>
    /\ EntryAfter("A1").Recorded
    /\ records[Len(records)].SeatsAfter = <<0>>

----------------------------------------------------------------------------
\* C38 (records for passed plates only): a confirmation lookup or a Create
\* of a tick is for a plate that the tick's snapshot lacks and that an
\* earlier collected tick of the worker listed (its entry was last seen
\* before this tick); a plate in the snapshot gets neither, and every stored
\* row is for a plate the worker has seen.
C38_PassedPlatesOnly ==
    /\ \A p \in DOMAIN lookups \cup DOMAIN creates :
          /\ tick = "collected"
          /\ ~Listed(arrivals, p)
          /\ p \in DOMAIN lookups
          /\ ZeroTime < EntryAfter(p).FirstSeenAt
          /\ EntryAfter(p).FirstSeenAt <= EntryAfter(p).LastSeenAt
          /\ EntryAfter(p).LastSeenAt < now
    /\ \A p \in DOMAIN creates : creates[p].arrival.BusNumber = p
    /\ \A p \in CurrentBuses(arrivals) : EntryAfter(p).LastSeenAt = now
    /\ \A i \in DOMAIN records : records[i].BusNumber \in Plates

\* The plate was listed by the two ticks before this one, which lists only
\* a vehicle without a plate: this tick stores the plate's record.
C38_Witness ==
    /\ tick = "collected"
    /\ "A1" \in DOMAIN creates
    /\ creates["A1"].ok
    /\ ~Listed(arrivals, "A1")
    /\ arrivals = <<NoPlate>>
    /\ EntryAfter("A1").LastSeenAt = now - interval
    /\ EntryAfter("A1").FirstSeenAt < EntryAfter("A1").LastSeenAt

----------------------------------------------------------------------------
\* C39 (re-initialization order): when initializeServices has closed the
\* database handle of the previous collector, every worker goroutine of that
\* collector has returned, so that none of them calls Persist on the closed
\* handle.
C39_ReinitOrder ==
    threads[AppThread].pc = "reinit" => \A w \in DOMAIN workers : ~Live(w)

----------------------------------------------------------------------------
\* The rows of the table with the bus and route of row id
OfSameBus(id) ==
    {i \in DOMAIN table :
        /\ table[i].BusNumber = table[id].BusNumber
        /\ table[i].RouteID = table[id].RouteID}

\* Those of them whose arrival time is within 6 hours of that of row id
NearInTime(id) ==
    {i \in OfSameBus(id) :
        /\ table[i].ArrivalTime - table[id].ArrivalTime <= TripWindow
        /\ table[id].ArrivalTime - table[i].ArrivalTime <= TripWindow}

\* full lists the rows ids once each, in the order of their arrival times
TimeOrdered(full, ids) ==
    /\ Len(full) = Cardinality(ids)
    /\ {full[i] : i \in DOMAIN full} = ids
    /\ \A i \in 1 .. Len(full) - 1 :
          table[full[i]].ArrivalTime <= table[full[i + 1]].ArrivalTime

\* rows is the part s..e of full: it holds row id, its station order is
\* strictly increasing, and neither neighbour in full continues the increase
MaximalSegment(rows, full, id) ==
    \E s \in DOMAIN full : \E e \in s .. Len(full) :
        /\ rows = SubSeq(full, s, e)
        /\ \E k \in s .. e : full[k] = id
        /\ \A i \in s .. e - 1 : table[full[i]].StaOrder < table[full[i + 1]].StaOrder
        /\ s > 1 => table[full[s - 1]].StaOrder >= table[full[s]].StaOrder
        /\ e < Len(full) => table[full[e]].StaOrder >= table[full[e + 1]].StaOrder

\* C40 as stated: the result is the maximal strictly increasing segment
\* around the target in the time-ordered arrivals of the same bus and route.
C40_Original ==
    trip.found =>
        \E full \in Orderings(OfSameBus(trip.id)) :
            /\ TimeOrdered(full, OfSameBus(trip.id))
            /\ MaximalSegment(trip.rows, full, trip.id)

\* C40 (trip of an arrival), amended: the call finds the target exactly when
\* the ID is in the table, and then the result is the maximal strictly
\* increasing segment around the target in the time-ordered arrivals of the
\* same bus and route whose arrival time is within 6 hours of the target's:
\* it contains the target, is strictly increasing in StaOrder, and is not
\* continued by the neighbouring fetched arrival on either side.
C40_TripSegment ==
    trip.id # 0 =>
        /\ trip.found <=> trip.id \in DOMAIN table
        /\ ~trip.found => trip.rows = <<>>
        /\ trip.found =>
              /\ TimeOrdered(trip.all, NearInTime(trip.id))
              /\ MaximalSegment(trip.rows, trip.all, trip.id)

\* A trip of two arrivals, with a third arrival of the bus fetched and left out
C40_Witness ==
    /\ trip.found
    /\ Len(trip.rows) = 2
    /\ Len(trip.all) = 3
    /\ trip.rows[2] = trip.id

====
